---- MODULE Spec2Model ----
(***************************************************************************)
(* Model of the Solana Token Suite SDK. One public operation runs at a     *)
(* time, from its call to its return or rejection, one step per await.     *)
(* createToken (src/src/token.ts): the Tx1 instruction plan is built from  *)
(* a TokenExtensions request; the extension conflict rules, the extension  *)
(* list that sizes the mint and the order of the instructions are          *)
(* translated from the source.                                             *)
(* resolveTransferHookAccounts (src/src/utils.ts): the extra accounts of a *)
(* transfer are read off a mock transfer instruction after the probe.      *)
(***************************************************************************)
EXTENDS Integers, Sequences, FiniteSets, TLC

VARIABLES
  pc,             \* position of the running call
  operation,      \* the public operation that is running
  result,         \* what the operation returned
  extensions,     \* argument: TokenExtensions
  metadata,       \* argument: TokenMetadata
  hookConfig,     \* argument: TransferHookConfig
  extensionTypes, \* the ExtensionType list handed to getMintLen
  transaction,    \* instructions of Tx1, in order
  simulated,      \* transactions whose simulation reported no error
  sent,           \* transactions handed to sendRawTransaction, in order
  landed,         \* transactions confirmed without an on-chain error
  transferContext, \* argument of the resolver: the transfer it resolves for
  mintOnLedger,   \* ledger: what the mint account holds
  probeExtras,    \* ledger: the accounts the probe resolves for this transfer
  mockIxKeys,     \* keys of the mock transferChecked instruction
  probes,         \* number of extra-account probes started
  failedStep,     \* the step of the resolver that threw, if any
  instructions,   \* instructions of the transaction an operation builds, in order
  skipPreflight,  \* sendInstructions argument skipPreflight
  compiled,       \* recentBlockhash compiled into the current transaction
  anchor,         \* { blockhash, lastValidBlockHeight } held for the confirmation
  polled,         \* confirmTransaction calls made, in order
  configOnLedger, \* ledger: the config account a query asks for
  timeArg,        \* argument of a time conversion
  tokenProgram,   \* buyToken: the token program that owns the mint
  extraAccounts,  \* buyToken, launchICO: the extra accounts the resolver returned
  configPda,      \* the address a config query fetches
  programAccounts, \* harvestTransferFees: what getProgramAccounts returned
  ataOnLedger,    \* ledger: whether the associated token account exists
  ataCheck,       \* what the existence check of that account decided
  rejected,       \* the awaited calls that rejected with a transport error
  calls,          \* concurrent invocations: the locals of each one
  hookPolicy,     \* ledger: the extra accounts the mint's hook asks for
  payerAta,       \* ledger: whether the payer's token account exists
  lastRead        \* the policy the most recent read of any invocation returned

args == <<extensions, metadata, hookConfig>>
ledger == <<simulated, sent, landed>>
createTokenVars == <<args, extensionTypes, transaction>>
resolverVars == <<transferContext, mintOnLedger, probeExtras, mockIxKeys, probes,
                  failedStep>>
callerVars == <<instructions, skipPreflight>>
anchorVars == <<compiled, anchor, polled>>
queryVars == <<configOnLedger>>
timeVars == <<timeArg>>
buyVars == <<tokenProgram>>
otherCalls == <<queryVars, timeVars, buyVars, extraAccounts>>
readVars == <<configPda, programAccounts, ataOnLedger, ataCheck>>
notResolver == <<createTokenVars, ledger, callerVars, anchorVars, queryVars, timeVars,
                 buyVars>>

concurrentVars == <<calls, hookPolicy, payerAta, lastRead>>
sequentialVars == <<pc, operation, result, createTokenVars, ledger, resolverVars,
                    callerVars, anchorVars, otherCalls, readVars, rejected>>

vars == <<sequentialVars, concurrentVars>>

(* What a createToken step leaves alone. *)
notCreateToken == <<operation, result, resolverVars, callerVars, otherCalls>>

(* ------------------------------------------------------------------ *)
(* Bounds of the input domains                                         *)
(* ------------------------------------------------------------------ *)
MaxRate == 1
MaxDecimals == 1

BOOL == {TRUE, FALSE}

(* An optional field is the empty tuple (absent) or a 1-tuple (present). *)
Opt(S) == {<<>>} \cup {<<x>> : x \in S}
Present(o) == o # <<>>

TransferFeeValues == {[feeBasisPoints |-> 50, maxFee |-> 5000]}
InterestValues == {[rate |-> r] : r \in 0..MaxRate}

(* types.ts TokenExtensions: six independently optional capabilities.   *)
(* A boolean field that is absent behaves as false in every test.        *)
TokenExtensions ==
  [permanentDelegation : BOOL,
   transferFee : Opt(TransferFeeValues),
   interestBearing : Opt(InterestValues),
   memoTransfer : BOOL,
   nonTransferable : BOOL,
   cpiGuard : BOOL]

(* types.ts TokenMetadata: the fields createToken's plan depends on.     *)
(* supply is a JS number, kept here in tenths of a unit: 0.5, 1 and 2,   *)
(* values whose products with a power of ten are exact in binary.        *)
SupplyTenthsValues == {5, 10, 20}

TokenMetadata ==
  [decimals : 0..MaxDecimals, supplyTenths : SupplyTenthsValues]

(* types.ts TransferHookConfig *)
TransferHookConfig ==
  [tradingHours : Opt({[openMinuteUTC |-> 0, closeMinuteUTC |-> 1439]}),
   transferLimits : Opt({[min |-> 1, max |-> 2]}),
   nftMintAddress : Opt({"nftMint"})]

NoExtensions ==
  [permanentDelegation |-> FALSE, transferFee |-> <<>>, interestBearing |-> <<>>,
   memoTransfer |-> FALSE, nonTransferable |-> FALSE, cpiGuard |-> FALSE]

DefaultMetadata == [decimals |-> 0, supplyTenths |-> 10]

NoHookConfig == [tradingHours |-> <<>>, transferLimits |-> <<>>, nftMintAddress |-> <<>>]

(* ------------------------------------------------------------------ *)
(* Extension conflict logic                                            *)
(* ------------------------------------------------------------------ *)
(* Faulty variant: cpiGuard no longer disables the hook. *)
isTransferHookDisabled_NoCpiGuard(ext) == ext.nonTransferable

(* Faulty variant: the hook is never disabled. *)
isTransferHookDisabled_Never(ext) == FALSE

isTransferHookDisabled(ext) == ext.nonTransferable \/ ext.cpiGuard

(* Faulty variant: the fee is never disabled. *)
isTransferFeeDisabled_Never(ext) == FALSE

(* Faulty variant: the wrong flag is consulted, negated. *)
isTransferFeeDisabled_ByDelegate(ext) == ~ext.permanentDelegation

isTransferFeeDisabled(ext) == ext.nonTransferable

(* Faulty variant: the delegate is never disabled. *)
isPermanentDelegateDisabled_Never(ext) == FALSE

isPermanentDelegateDisabled(ext) == ext.nonTransferable

(* Faulty variant: NonTransferable is pushed first, TransferHook last. *)
BuildExtensionTypes_PriorityOrder(ext) ==
  (IF ext.nonTransferable THEN <<"NonTransferable">> ELSE <<>>)
  \o (IF ext.permanentDelegation /\ ~ext.nonTransferable
        THEN <<"PermanentDelegate">> ELSE <<>>)
  \o (IF Present(ext.transferFee) /\ ~ext.nonTransferable
        THEN <<"TransferFeeConfig">> ELSE <<>>)
  \o (IF Present(ext.interestBearing) THEN <<"InterestBearingConfig">> ELSE <<>>)
  \o (IF ~(ext.nonTransferable \/ ext.cpiGuard) THEN <<"TransferHook">> ELSE <<>>)

(* Faulty variant: InterestBearingConfig is not sized. *)
BuildExtensionTypes_NoInterest(ext) ==
  (IF ~(ext.nonTransferable \/ ext.cpiGuard) THEN <<"TransferHook">> ELSE <<>>)
  \o (IF ext.permanentDelegation /\ ~ext.nonTransferable
        THEN <<"PermanentDelegate">> ELSE <<>>)
  \o (IF Present(ext.transferFee) /\ ~ext.nonTransferable
        THEN <<"TransferFeeConfig">> ELSE <<>>)
  \o (IF ext.nonTransferable THEN <<"NonTransferable">> ELSE <<>>)

(* The extension type list handed to getMintLen, in push order. *)
BuildExtensionTypes(ext) ==
  (IF ~isTransferHookDisabled(ext) THEN <<"TransferHook">> ELSE <<>>)
  \o (IF ext.permanentDelegation /\ ~isPermanentDelegateDisabled(ext)
        THEN <<"PermanentDelegate">> ELSE <<>>)
  \o (IF Present(ext.transferFee) /\ ~isTransferFeeDisabled(ext)
        THEN <<"TransferFeeConfig">> ELSE <<>>)
  \o (IF Present(ext.interestBearing) THEN <<"InterestBearingConfig">> ELSE <<>>)
  \o (IF ext.nonTransferable THEN <<"NonTransferable">> ELSE <<>>)

(* ------------------------------------------------------------------ *)
(* Tx1 instruction plan                                                *)
(* ------------------------------------------------------------------ *)
RECURSIVE Pow10(_)
Pow10(n) == IF n = 0 THEN 1 ELSE 10 * Pow10(n - 1)

(* metadata.supply * 10 ** metadata.decimals, in tenths *)
SupplyProductTenths(md) == md.supplyTenths * Pow10(md.decimals)

(* BigInt(x) throws a RangeError unless x is an integer. *)
BigIntThrows(md) == SupplyProductTenths(md) % 10 # 0

supplyUnits(md) == SupplyProductTenths(md) \div 10

CreateAccountIx(types) ==
  [op |-> "CreateAccount", fromPubkey |-> "payer", newAccountPubkey |-> "mint",
   mintLenOf |-> types, programId |-> "TOKEN_2022_PROGRAM_ID"]

(* 2. Extension inits BEFORE InitializeMint *)
ExtensionInits(ext) ==
  (IF ext.nonTransferable
     THEN <<[op |-> "InitializeNonTransferableMint", mint |-> "mint"]>> ELSE <<>>)
  \o (IF ext.permanentDelegation /\ ~isPermanentDelegateDisabled(ext)
        THEN <<[op |-> "InitializePermanentDelegate", mint |-> "mint",
                delegate |-> "payer"]>>
        ELSE <<>>)
  \o (IF Present(ext.transferFee) /\ ~isTransferFeeDisabled(ext)
        THEN <<[op |-> "InitializeTransferFeeConfig", mint |-> "mint",
                feeBasisPoints |-> ext.transferFee[1].feeBasisPoints,
                maxFee |-> ext.transferFee[1].maxFee]>>
        ELSE <<>>)
  \o (IF Present(ext.interestBearing)
        THEN <<[op |-> "InitializeInterestBearingMint", mint |-> "mint",
                rate |-> ext.interestBearing[1].rate]>>
        ELSE <<>>)
  \o (IF ~isTransferHookDisabled(ext)
        THEN <<[op |-> "InitializeTransferHook", mint |-> "mint",
                authority |-> "payer", programId |-> "TRANSFER_HOOK_PROGRAM_ID"]>>
        ELSE <<>>)

InitializeMintIx(md) ==
  [op |-> "InitializeMint", mint |-> "mint", decimals |-> md.decimals,
   mintAuthority |-> "payer", freezeAuthority |-> "payer"]

CreateATAIx ==
  [op |-> "CreateAssociatedTokenAccount", payer |-> "payer", ata |-> "ata",
   owner |-> "payer", mint |-> "mint"]

MintToIx(md) ==
  [op |-> "MintTo", mint |-> "mint", destination |-> "ata", authority |-> "payer",
   amount |-> supplyUnits(md)]

(* 5b. Post-mint ATA-level extensions (MemoTransfer, CPI Guard) *)
AccountExtensionTypes(ext) ==
  (IF ext.memoTransfer THEN <<"MemoTransfer">> ELSE <<>>)
  \o (IF ext.cpiGuard THEN <<"CpiGuard">> ELSE <<>>)

ReallocatePart(ext) ==
  IF Len(AccountExtensionTypes(ext)) > 0
    THEN <<[op |-> "Reallocate", account |-> "ata", payer |-> "payer",
            extensionTypes |-> AccountExtensionTypes(ext), owner |-> "payer"]>>
    ELSE <<>>

EnablePart(ext) ==
  (IF ext.memoTransfer
     THEN <<[op |-> "EnableRequiredMemoTransfers", account |-> "ata",
             authority |-> "payer"]>>
     ELSE <<>>)
  \o (IF ext.cpiGuard
        THEN <<[op |-> "EnableCpiGuard", account |-> "ata", authority |-> "payer"]>>
        ELSE <<>>)

(* Faulty variant: the extension inits come before CreateAccount. *)
UpToATA_InitsFirst(types, ext, md) ==
  ExtensionInits(ext)
    \o <<CreateAccountIx(types), InitializeMintIx(md), CreateATAIx>>

(* Faulty variant: InitializeMint comes before the extension inits. *)
UpToATA_MintFirst(types, ext, md) ==
  <<CreateAccountIx(types), InitializeMintIx(md)>> \o ExtensionInits(ext)
    \o <<CreateATAIx>>

(* Faulty variant: the ATA is created before InitializeMint. *)
UpToATA_ATAFirst(types, ext, md) ==
  <<CreateAccountIx(types)>> \o ExtensionInits(ext)
    \o <<CreateATAIx, InitializeMintIx(md)>>

(* Instructions 1 to 4: CreateAccount, extension inits, InitializeMint, ATA *)
UpToATA(types, ext, md) ==
  <<CreateAccountIx(types)>> \o ExtensionInits(ext)
    \o <<InitializeMintIx(md), CreateATAIx>>

(* Faulty variant: the account extensions are enabled before Reallocate. *)
AfterATA_EnableFirst(ext, md) ==
  <<MintToIx(md)>> \o EnablePart(ext) \o ReallocatePart(ext)

(* Instructions 5 and 5b: MintTo, Reallocate, enabling of account extensions *)
AfterATA(ext, md) ==
  <<MintToIx(md)>> \o ReallocatePart(ext) \o EnablePart(ext)

(* Faulty variant: the instruction is put in front. *)
AddInstruction_Front(tx, ix) == <<ix>> \o tx

(* Transaction.add appends to the instruction list. *)
AddInstruction(tx, ix) == Append(tx, ix)

(* 6. Initialize Transfer Hook Registry: arguments and accounts *)
(* A BN is built from a JS number, or from the decimal string of u64::MAX. *)
BNOfNumber(n) == [number |-> n]
BNU64Max == [decimal |-> "18446744073709551615"]

(* PublicKey.findProgramAddressSync(seeds, programId)[0]: the address is  *)
(* a function of the seed list and of the program, and different seed     *)
(* lists or programs give different addresses.                            *)
findProgramAddressSync(seeds, programId) == [seeds |-> seeds, programId |-> programId]
NoAddress == [seeds |-> <<>>, programId |-> "none"]

(* The mints an address is derived for: the one createToken generates    *)
(* and another one.                                                       *)
Mints == {"mint", "otherMint"}

deriveHookConfigPDA(mint) ==
  findProgramAddressSync(<<"config", mint>>, "TRANSFER_HOOK_PROGRAM_ID")
deriveExtraAccountMetaListPDA(mint) ==
  findProgramAddressSync(<<"extra-account-metas", mint>>, "TRANSFER_HOOK_PROGRAM_ID")
deriveICOConfigPDA == findProgramAddressSync(<<"config">>, "ICO_PROGRAM_ID")
deriveICOConfigAccountPDA(mint) ==
  findProgramAddressSync(<<"ico_config_account", mint>>, "ICO_PROGRAM_ID")

(* Faulty variant: the mint is left out of the seeds. *)
RegistryConfigPDA_NoMint(mint) ==
  findProgramAddressSync(<<"config">>, "TRANSFER_HOOK_PROGRAM_ID")

(* The two addresses createToken derives inline for the registry call *)
RegistryConfigPDA(mint) ==
  findProgramAddressSync(<<"config", mint>>, "TRANSFER_HOOK_PROGRAM_ID")
RegistryExtraAccountMetaListPDA(mint) ==
  findProgramAddressSync(<<"extra-account-metas", mint>>, "TRANSFER_HOOK_PROGRAM_ID")

InitRegistryIx(hc, md) ==
  [op |-> "InitializeRegistry",
   openMinute |-> IF Present(hc.tradingHours)
                    THEN <<hc.tradingHours[1].openMinuteUTC>> ELSE <<>>,
   closeMinute |-> IF Present(hc.tradingHours)
                     THEN <<hc.tradingHours[1].closeMinuteUTC>> ELSE <<>>,
   maxTransferAmt |-> IF Present(hc.transferLimits)
                        THEN BNOfNumber(hc.transferLimits[1].max * Pow10(md.decimals))
                        ELSE BNU64Max,
   minTransferAmt |-> IF Present(hc.transferLimits)
                        THEN BNOfNumber(hc.transferLimits[1].min * Pow10(md.decimals))
                        ELSE BNOfNumber(0),
   nftMint |-> IF Present(hc.nftMintAddress)
                 THEN hc.nftMintAddress[1] ELSE "PublicKey.default",
   payer |-> "payer", treasury |-> "TREASURY_ADDRESS", mint |-> "mint",
   config |-> RegistryConfigPDA("mint"),
   extraAccountMetaList |-> RegistryExtraAccountMetaListPDA("mint")]

(* ------------------------------------------------------------------ *)
(* resolveTransferHookAccounts                                         *)
(* ------------------------------------------------------------------ *)
MaxExtra == 2

RECURSIVE SeqsUpTo(_, _)
SeqsUpTo(S, n) ==
  IF n = 0 THEN {<<>>}
  ELSE LET shorter == SeqsUpTo(S, n - 1)
       IN shorter \cup {Append(q, x) : q \in shorter, x \in S}

(* { pubkey, isWritable, isSigner } *)
AccountMeta(k, w, sg) == [pubkey |-> k, isWritable |-> w, isSigner |-> sg]

ExtraMetas == {AccountMeta(k, w, sg) : k \in {"extraA", "extraB"}, w \in BOOL, sg \in BOOL}

(* The transfer: (mint, source, destination, authority, amount, decimals). *)
(* A negative amount stands for one the u64 encoder cannot take.           *)
TransferContexts ==
  [mint : {"mint"}, source : {"sourceAta"}, destination : {"destAta", "otherAta"},
   authority : {"authority"}, amount : {-1, 0, 1}, decimals : {0, 9}]

NoTransferContext ==
  [mint |-> "mint", source |-> "sourceAta", destination |-> "destAta",
   authority |-> "authority", amount |-> 0, decimals |-> 0]

NoResult == <<"none">>

(* What the mint account holds: no account, a mint without the             *)
(* transfer-hook extension, or one with it, its program id null or set.    *)
MintStates == {"notFound", "noHook", "nullProgram", "hookProgram"}

(* getTransferHook(mintState): null, or { authority, programId } *)
getTransferHook(m) ==
  CASE m = "noHook" -> <<>>
    [] m = "nullProgram" -> <<[programId |-> "PublicKey.default"]>>
    [] m = "hookProgram" -> <<[programId |-> "hookProgram"]>>

(* Keys of createTransferCheckedInstruction(source, mint, destination,     *)
(* authority, amount, decimals, [], TOKEN_2022_PROGRAM_ID).                *)
TransferCheckedKeys(c) ==
  <<AccountMeta(c.source, TRUE, FALSE), AccountMeta(c.mint, FALSE, FALSE),
    AccountMeta(c.destination, TRUE, FALSE), AccountMeta(c.authority, FALSE, TRUE)>>

(* Faulty variant: one key too many is taken for canonical. *)
ExtraAccountsOf_Slice5(keys) == SubSeq(keys, 6, Len(keys))

(* Faulty variant: the extra accounts come back in reverse order. *)
ExtraAccountsOf_Reversed(keys) ==
  [i \in 1..(Len(keys) - 4) |-> keys[Len(keys) + 1 - i]]

(* mockIx.keys.slice(4) *)
ExtraAccountsOf(keys) == SubSeq(keys, 5, Len(keys))

(* Faulty variant: a failed probe hands back what it had appended so far. *)
OnResolveFailure_Partial(keys) == SubSeq(keys, 5, Len(keys))

(* catch { return []; } *)
OnResolveFailure(keys) == <<>>

(* Faulty variant: a mint without the extension is probed like any other. *)
HookInfoMissing_Never(hookInfo) == FALSE

(* if (!hookInfo) return []; *)
HookInfoMissing(hookInfo) == hookInfo = <<>>

(* The probe of a null program id finds no validation account: nothing    *)
(* can be appended for it.                                                *)
ProbeAppends(m, extras) == IF m = "hookProgram" THEN extras ELSE <<>>

(* ------------------------------------------------------------------ *)
(* Blockhashes, submissions and confirmation polls                     *)
(* ------------------------------------------------------------------ *)
MaxBlockhash == 2

(* What getLatestBlockhash resolves with: the n-th blockhash of the    *)
(* cluster and the last block height at which it is valid.             *)
LatestBlockhash(n) == [blockhash |-> n, lastValidBlockHeight |-> n]
NoAnchor == [blockhash |-> 0, lastValidBlockHeight |-> 0]

(* The cluster moves forward: a later call never sees an older blockhash. *)
LaterBlockhashes(seen) == {n \in 1..MaxBlockhash : n >= seen}

(* sendRawTransaction(tx.serialize(), { skipPreflight }) accepted by the node *)
Submission(tx, skip, recent) ==
  [tx |-> tx, skipPreflight |-> skip, recentBlockhash |-> recent]

(* confirmTransaction({ signature, blockhash, lastValidBlockHeight }) *)
Poll(tx, a) ==
  [tx |-> tx, blockhash |-> a.blockhash, lastValidBlockHeight |-> a.lastValidBlockHeight]

(* sendInstructions(..., signers = [], skipPreflight = false) *)
DefaultSkipPreflight_True == TRUE
DefaultSkipPreflight == FALSE


(* ------------------------------------------------------------------ *)
(* IST <-> UTC time helpers                                            *)
(* ------------------------------------------------------------------ *)
IST_OFFSET == 330
MinutesPerDay == 1440
MinutesPerHour == 60

(* A string is the sequence of its characters. *)
DigitChars == <<"0", "1", "2", "3", "4", "5", "6", "7", "8", "9">>
DigitValue(c) == CHOOSE d \in 0..9 : DigitChars[d + 1] = c
NoTimeArg == [none |-> TRUE]

(* str.split(sep): the pieces between the separators *)
RECURSIVE Split(_, _)
Split(str, sep) ==
  IF \A i \in 1..Len(str) : str[i] # sep THEN <<str>>
  ELSE LET at == CHOOSE i \in 1..Len(str) : str[i] = sep /\ \A j \in 1..(i - 1) : str[j] # sep
       IN <<SubSeq(str, 1, at - 1)>> \o Split(SubSeq(str, at + 1, Len(str)), sep)

(* Number(str) of a string of decimal digits *)
RECURSIVE Number(_)
Number(str) ==
  IF str = <<>> THEN 0
  ELSE 10 * Number(SubSeq(str, 1, Len(str) - 1)) + DigitValue(str[Len(str)])

(* n.toString() of an integer: a minus sign in front of a negative one *)
RECURSIVE toString(_)
toString(n) ==
  IF n < 0 THEN <<"-">> \o toString(0 - n)
  ELSE IF n < 10 THEN <<DigitChars[n + 1]>>
  ELSE toString(n \div 10) \o <<DigitChars[(n % 10) + 1]>>

(* Math.floor(a / b) for b > 0 *)
FloorDiv(a, b) == IF a >= 0 THEN a \div b ELSE 0 - (((0 - a) + b - 1) \div b)

(* a % b of JavaScript: the remainder has the sign of the dividend *)
Remainder(a, b) == IF a >= 0 THEN a % b ELSE 0 - ((0 - a) % b)

(* str.padStart(len, fill) with a one-character fill *)
RECURSIVE padStart(_, _, _)
padStart(str, len, fill) ==
  IF Len(str) >= len THEN str ELSE padStart(<<fill>> \o str, len, fill)

TwoDigits_NoPad(n) == toString(n)
TwoDigits(n) == padStart(toString(n), 2, "0")

istTimeToUtcMinute_NoWrap(istTime) ==
  LET parts == Split(istTime, ":")
  IN Number(parts[1]) * MinutesPerHour + Number(parts[2]) - IST_OFFSET

istTimeToUtcMinute(istTime) ==
  LET parts == Split(istTime, ":")
      h == Number(parts[1])
      m == Number(parts[2])
      utcMin == h * MinutesPerHour + m - IST_OFFSET
  IN IF utcMin < 0 THEN utcMin + MinutesPerDay ELSE utcMin

utcMinuteToIstTime(utcMin) ==
  LET sum == utcMin + IST_OFFSET
      istMin == IF sum >= MinutesPerDay THEN sum - MinutesPerDay ELSE sum
      h == FloorDiv(istMin, MinutesPerHour)
      m == Remainder(istMin, MinutesPerHour)
  IN TwoDigits(h) \o <<":">> \o TwoDigits(m)

(* Faulty variant: the minute is reduced modulo one day first. *)
utcMinuteToUtcTime_Wrapped(utcMin) ==
  LET day == utcMin - MinutesPerDay * FloorDiv(utcMin, MinutesPerDay)
  IN TwoDigits(FloorDiv(day, MinutesPerHour)) \o <<":">>
       \o TwoDigits(Remainder(day, MinutesPerHour))

utcMinuteToUtcTime(utcMin) ==
  LET h == FloorDiv(utcMin, MinutesPerHour)
      m == Remainder(utcMin, MinutesPerHour)
  IN TwoDigits(h) \o <<":">> \o TwoDigits(m)

(* The integers a conversion is called with: MaxDays days before         *)
(* minute 0 and MaxDays days after minute 1439.                           *)
MaxDays == 1
MinuteArgs == (0 - MaxDays * MinutesPerDay)..((MaxDays + 1) * MinutesPerDay - 1)

(* The wall-clock strings "HH:MM" with HH in 00..23 and MM in 00..59 *)
WallClock(h, m) ==
  <<DigitChars[(h \div 10) + 1], DigitChars[(h % 10) + 1], ":",
    DigitChars[(m \div 10) + 1], DigitChars[(m % 10) + 1]>>
WallClockStrings == {WallClock(h, m) : h \in 0..23, m \in 0..59}

(* Two invocations of launchICO / buyToken run concurrently, each with    *)
(* its own locals.                                                        *)
Invocations == {1, 2}
IdleCall ==
  [pc |-> "idle", op |-> "none", amount |-> 0, resolved |-> FALSE, policyAtRead |-> <<>>,
   extraAccounts |-> <<>>, ataCheck |-> "none", plan |-> <<>>]

Init ==
  /\ pc = "idle"
  /\ operation = "none"
  /\ result = NoResult
  /\ transferContext = NoTransferContext
  /\ mintOnLedger = "notFound"
  /\ probeExtras = <<>>
  /\ mockIxKeys = <<>>
  /\ probes = 0
  /\ failedStep = "none"
  /\ extensions = NoExtensions
  /\ metadata = DefaultMetadata
  /\ hookConfig = NoHookConfig
  /\ extensionTypes = <<>>
  /\ transaction = <<>>
  /\ simulated = {}
  /\ sent = <<>>
  /\ landed = {}
  /\ instructions = <<>>
  /\ skipPreflight = DefaultSkipPreflight
  /\ compiled = 0
  /\ anchor = NoAnchor
  /\ polled = <<>>
  /\ configOnLedger = "none"
  /\ timeArg = NoTimeArg
  /\ tokenProgram = "none"
  /\ extraAccounts = <<>>
  /\ configPda = NoAddress
  /\ programAccounts = <<>>
  /\ ataOnLedger = "none"
  /\ ataCheck = "none"
  /\ rejected = {}
  /\ calls = [i \in Invocations |-> IdleCall]
  /\ hookPolicy = <<>>
  /\ payerAta = "absent"
  /\ lastRead = <<>>

(* createToken is entered with its arguments. *)
CreateTokenCall ==
  /\ pc = "idle"
  /\ \E ext \in TokenExtensions, md \in TokenMetadata, hc \in TransferHookConfig :
       /\ extensions' = ext
       /\ metadata' = md
       /\ hookConfig' = hc
  /\ pc' = "uploadImage"
  /\ operation' = "createToken"
  /\ UNCHANGED <<extensionTypes, transaction, ledger, result, resolverVars, callerVars,
                 anchorVars, otherCalls>>
  /\ UNCHANGED <<readVars, rejected>>
  /\ UNCHANGED concurrentVars

(* Step 1: await umi.uploader.upload([genericFile]) resolves or rejects. *)
UploadImage ==
  /\ pc = "uploadImage"
  /\ \E ok \in BOOL :
       /\ pc' = IF ok THEN "uploadJson" ELSE "failed"
       /\ rejected' = IF ok THEN rejected ELSE rejected \cup {"upload"}
  /\ UNCHANGED <<args, extensionTypes, transaction, ledger>>
  /\ UNCHANGED <<notCreateToken, anchorVars>>
  /\ UNCHANGED readVars
  /\ UNCHANGED concurrentVars

(* Step 1: await umi.uploader.uploadJson(...) resolves or rejects. *)
UploadJson ==
  /\ pc = "uploadJson"
  /\ \E ok \in BOOL :
       /\ pc' = IF ok THEN "sizeMint" ELSE "failed"
       /\ rejected' = IF ok THEN rejected ELSE rejected \cup {"uploadJson"}
  /\ UNCHANGED <<args, extensionTypes, transaction, ledger>>
  /\ UNCHANGED <<notCreateToken, anchorVars>>
  /\ UNCHANGED readVars
  /\ UNCHANGED concurrentVars

(* Step 2: the extension type list is built, then the rent query is awaited. *)
SizeMint ==
  /\ pc = "sizeMint"
  /\ extensionTypes' = BuildExtensionTypes(extensions)
  /\ \E ok \in BOOL :
       /\ pc' = IF ok THEN "buildTx1" ELSE "failed"
       /\ rejected' = IF ok THEN rejected ELSE rejected \cup {"getMinimumBalanceForRentExemption"}
  /\ UNCHANGED <<args, transaction, ledger>>
  /\ UNCHANGED <<notCreateToken, anchorVars>>
  /\ UNCHANGED readVars
  /\ UNCHANGED concurrentVars

(* Instructions 1 to 5b are added synchronously; BigInt may throw before   *)
(* MintTo is added. With the hook disabled the plan is complete here.      *)
BuildTx1 ==
  /\ pc = "buildTx1"
  /\ IF BigIntThrows(metadata)
       THEN /\ transaction' = UpToATA(extensionTypes, extensions, metadata)
            /\ pc' = "failed"
       ELSE /\ transaction' = UpToATA(extensionTypes, extensions, metadata)
                                \o AfterATA(extensions, metadata)
            /\ pc' = IF ~isTransferHookDisabled(extensions)
                       THEN "initRegistry" ELSE "planBuilt"
  /\ UNCHANGED <<args, extensionTypes, ledger>>
  /\ UNCHANGED <<notCreateToken, anchorVars>>
  /\ UNCHANGED <<readVars, rejected>>
  /\ UNCHANGED concurrentVars

(* 6. await program.methods.initializeRegistry(...).instruction(), then add. *)
InitRegistry ==
  /\ pc = "initRegistry"
  /\ \E ok \in BOOL :
       IF ok
         THEN /\ transaction' = AddInstruction(transaction,
                                               InitRegistryIx(hookConfig, metadata))
              /\ pc' = "planBuilt"
         ELSE /\ transaction' = transaction
              /\ pc' = "failed"
  /\ UNCHANGED <<args, extensionTypes, ledger>>
  /\ UNCHANGED <<notCreateToken, anchorVars>>
  /\ UNCHANGED <<readVars, rejected>>
  /\ UNCHANGED concurrentVars

(* Steps 3 and 4: the metadata builder is made, then the blockhash awaited. *)
GetBlockhash1 ==
  /\ pc = "planBuilt"
  /\ \/ /\ pc' = "failed"
        /\ rejected' = rejected \cup {"getLatestBlockhash"}
        /\ UNCHANGED <<compiled, anchor>>
     \/ \E latest \in LaterBlockhashes(compiled) :
          /\ anchor' = LatestBlockhash(latest)
          /\ compiled' = latest
          /\ pc' = "simulate1"
          /\ UNCHANGED rejected
  /\ UNCHANGED <<args, extensionTypes, transaction, ledger>>
  /\ UNCHANGED <<notCreateToken, polled>>
  /\ UNCHANGED readVars
  /\ UNCHANGED concurrentVars

(* Result of awaiting simulateTransaction: the call rejects, or reports   *)
(* an error (createToken throws), or reports none.                        *)
SimOutcomes == {"rejects", "err", "ok"}

Simulate1 ==
  /\ pc = "simulate1"
  /\ \E r \in SimOutcomes :
       /\ pc' = IF r = "ok" THEN "sign1" ELSE "failed"
       /\ rejected' = IF r = "rejects" THEN rejected \cup {"simulateTransaction"} ELSE rejected
       /\ simulated' = IF r = "ok" THEN simulated \cup {"tx1"} ELSE simulated
  /\ UNCHANGED <<args, extensionTypes, transaction, sent, landed>>
  /\ UNCHANGED <<notCreateToken, anchorVars>>
  /\ UNCHANGED readVars
  /\ UNCHANGED concurrentVars

WalletSign1 ==
  /\ pc = "sign1"
  /\ \E ok \in BOOL : pc' = IF ok THEN "send1" ELSE "failed"
  /\ UNCHANGED <<args, extensionTypes, transaction, ledger>>
  /\ UNCHANGED <<notCreateToken, anchorVars>>
  /\ UNCHANGED <<readVars, rejected>>
  /\ UNCHANGED concurrentVars

(* sendRawTransaction(..., { skipPreflight: true }) *)
Send1 ==
  /\ pc = "send1"
  /\ \E ok \in BOOL :
       /\ pc' = IF ok THEN "confirm1" ELSE "failed"
       /\ rejected' = IF ~ok THEN rejected \cup {"sendRawTransaction"} ELSE rejected
       /\ sent' = IF ok THEN Append(sent, Submission("tx1", TRUE, compiled)) ELSE sent
  /\ UNCHANGED <<args, extensionTypes, transaction, simulated, landed>>
  /\ UNCHANGED <<notCreateToken, anchorVars>>
  /\ UNCHANGED readVars
  /\ UNCHANGED concurrentVars

(* Result of awaiting confirmTransaction: it rejects, or resolves with a  *)
(* signature status whose err field is set or null; the status is not     *)
(* looked at.                                                             *)
ConfirmOutcomes == {"rejects", "statusErr", "statusOk"}

Confirm1 ==
  /\ pc = "confirm1"
  /\ \E r \in ConfirmOutcomes :
       /\ pc' = IF r = "rejects" THEN "failed" ELSE "blockhash2"
       /\ rejected' = IF r = "rejects" THEN rejected \cup {"confirmTransaction"} ELSE rejected
       /\ polled' = Append(polled, Poll("tx1", anchor))
       /\ landed' = IF r = "statusOk" THEN landed \cup {"tx1"} ELSE landed
  /\ UNCHANGED <<args, extensionTypes, transaction, simulated, sent>>
  /\ UNCHANGED <<notCreateToken, compiled, anchor>>
  /\ UNCHANGED readVars
  /\ UNCHANGED concurrentVars

(* Step 5: Tx2 carries the Metaplex metadata instructions. *)
GetBlockhash2 ==
  /\ pc = "blockhash2"
  /\ \/ /\ pc' = "failed"
        /\ rejected' = rejected \cup {"getLatestBlockhash"}
        /\ UNCHANGED <<compiled, anchor>>
     \/ \E latest \in LaterBlockhashes(compiled) :
          /\ anchor' = LatestBlockhash(latest)
          /\ compiled' = latest
          /\ pc' = "simulate2"
          /\ UNCHANGED rejected
  /\ UNCHANGED <<args, extensionTypes, transaction, ledger>>
  /\ UNCHANGED <<notCreateToken, polled>>
  /\ UNCHANGED readVars
  /\ UNCHANGED concurrentVars

Simulate2 ==
  /\ pc = "simulate2"
  /\ \E r \in SimOutcomes :
       /\ pc' = IF r = "ok" THEN "sign2" ELSE "failed"
       /\ rejected' = IF r = "rejects" THEN rejected \cup {"simulateTransaction"} ELSE rejected
       /\ simulated' = IF r = "ok" THEN simulated \cup {"tx2"} ELSE simulated
  /\ UNCHANGED <<args, extensionTypes, transaction, sent, landed>>
  /\ UNCHANGED <<notCreateToken, anchorVars>>
  /\ UNCHANGED readVars
  /\ UNCHANGED concurrentVars

WalletSign2 ==
  /\ pc = "sign2"
  /\ \E ok \in BOOL : pc' = IF ok THEN "send2" ELSE "failed"
  /\ UNCHANGED <<args, extensionTypes, transaction, ledger>>
  /\ UNCHANGED <<notCreateToken, anchorVars>>
  /\ UNCHANGED <<readVars, rejected>>
  /\ UNCHANGED concurrentVars

Send2 ==
  /\ pc = "send2"
  /\ \E ok \in BOOL :
       /\ pc' = IF ok THEN "confirm2" ELSE "failed"
       /\ rejected' = IF ~ok THEN rejected \cup {"sendRawTransaction"} ELSE rejected
       /\ sent' = IF ok THEN Append(sent, Submission("tx2", TRUE, compiled)) ELSE sent
  /\ UNCHANGED <<args, extensionTypes, transaction, simulated, landed>>
  /\ UNCHANGED <<notCreateToken, anchorVars>>
  /\ UNCHANGED readVars
  /\ UNCHANGED concurrentVars

Confirm2 ==
  /\ pc = "confirm2"
  /\ \E r \in ConfirmOutcomes :
       /\ pc' = IF r = "rejects" THEN "failed" ELSE "done"
       /\ rejected' = IF r = "rejects" THEN rejected \cup {"confirmTransaction"} ELSE rejected
       /\ polled' = Append(polled, Poll("tx2", anchor))
       /\ landed' = IF r = "statusOk" THEN landed \cup {"tx2"} ELSE landed
  /\ UNCHANGED <<args, extensionTypes, transaction, simulated, sent>>
  /\ UNCHANGED <<notCreateToken, compiled, anchor>>
  /\ UNCHANGED readVars
  /\ UNCHANGED concurrentVars

(* ------------------------------------------------------------------ *)
(* resolveTransferHookAccounts: steps                                  *)
(* ------------------------------------------------------------------ *)
(* resolveTransferHookAccounts is entered with a transfer context; the    *)
(* ledger holds some mint and some validation state.                      *)
ResolveCall ==
  /\ pc = "idle"
  /\ \E c \in TransferContexts, m \in MintStates :
       /\ transferContext' = c
       /\ mintOnLedger' = m
       /\ \E x \in SeqsUpTo(ExtraMetas, MaxExtra) :
            probeExtras' = ProbeAppends(m, x)
  /\ operation' = "resolveTransferHookAccounts"
  /\ pc' = "rs_getMint"
  /\ UNCHANGED <<result, mockIxKeys, probes, failedStep, extraAccounts, notResolver>>
  /\ UNCHANGED <<readVars, rejected>>
  /\ UNCHANGED concurrentVars

(* The resolver hands a value back to where it was called from: to the  *)
(* application, or to buyToken, which goes on with its buyer-ATA check. *)
ResolverReturns(value) ==
  IF operation = "buyToken"
    THEN /\ extraAccounts' = value
         /\ pc' = "bt_getAccount"
         /\ result' = result
  ELSE IF operation = "launchICO"
    THEN /\ extraAccounts' = value
         /\ pc' = "li_getAccount"
         /\ result' = result
    ELSE /\ result' = value
         /\ pc' = "done"
         /\ extraAccounts' = extraAccounts

(* await getMint resolves or rejects; then getTransferHook, the mock      *)
(* instruction and the call of addExtraAccountMetasForExecute.            *)
RsGetMint ==
  /\ pc = "rs_getMint"
  /\ \E rpcOk \in BOOL, encodes \in BOOL :
       /\ IF ~rpcOk \/ mintOnLedger = "notFound"
            THEN /\ ResolverReturns(OnResolveFailure(mockIxKeys))
                 /\ failedStep' = "getMint"
                 /\ UNCHANGED <<mockIxKeys, probes>>
          ELSE IF HookInfoMissing(getTransferHook(mintOnLedger))
            THEN /\ ResolverReturns(<<>>)
                 /\ UNCHANGED <<mockIxKeys, probes, failedStep>>
          ELSE IF transferContext.amount < 0 /\ ~encodes
            THEN /\ ResolverReturns(OnResolveFailure(mockIxKeys))
                 /\ failedStep' = "createTransferCheckedInstruction"
                 /\ UNCHANGED <<mockIxKeys, probes>>
          ELSE /\ mockIxKeys' = TransferCheckedKeys(transferContext)
               /\ probes' = probes + 1
               /\ pc' = "rs_probe"
               /\ UNCHANGED <<result, failedStep, extraAccounts>>
       /\ rejected' = IF rpcOk THEN rejected
                      ELSE rejected \cup {"resolveTransferHookAccounts.getMint"}
  /\ UNCHANGED <<operation, transferContext, mintOnLedger, probeExtras,
                 notResolver>>
  /\ UNCHANGED readVars
  /\ UNCHANGED concurrentVars

(* await addExtraAccountMetasForExecute: it appends the resolved accounts *)
(* to the instruction, or rejects having appended only some of them.      *)
RsProbe ==
  /\ pc = "rs_probe"
  /\ \/ /\ mockIxKeys' = mockIxKeys \o probeExtras
        /\ ResolverReturns(ExtraAccountsOf(mockIxKeys'))
        /\ failedStep' = failedStep
        /\ UNCHANGED rejected
     \/ \E n \in 0..Len(probeExtras), rpcOk \in BOOL :
          /\ mockIxKeys' = mockIxKeys \o SubSeq(probeExtras, 1, n)
          /\ ResolverReturns(OnResolveFailure(mockIxKeys'))
          /\ failedStep' = "addExtraAccountMetasForExecute"
          /\ rejected' =
               IF rpcOk THEN rejected
               ELSE rejected \cup {"resolveTransferHookAccounts.addExtraAccountMetasForExecute"}
  /\ UNCHANGED <<operation, transferContext, mintOnLedger, probeExtras, probes,
                 notResolver>>
  /\ UNCHANGED readVars
  /\ UNCHANGED concurrentVars

(* ------------------------------------------------------------------ *)
(* Token operations: harvestTransferFees, delegateBurn,                *)
(* delegateTransfer, updateInterestRate                                *)
(* ------------------------------------------------------------------ *)
MaxAccounts == 41
MaxAmount == 2
BatchSize == 20

(* What getProgramAccounts can hold for a mint: token accounts with      *)
(* withheld fees, with none, without the fee extension, and data that    *)
(* unpackAccount rejects.                                                *)
AccountPatterns == {"allWithheld", "mostlyWithheld", "mixed", "noneWithheld"}
KindAt(pattern, i) ==
  CASE pattern = "allWithheld" -> "withheld"
    [] pattern = "noneWithheld" -> "zeroWithheld"
    [] pattern = "mostlyWithheld" ->
         CASE i % 5 # 0 -> "withheld"
           [] i % 15 = 0 -> "invalid"
           [] i % 15 = 5 -> "zeroWithheld"
           [] OTHER -> "noFeeExtension"
    [] pattern = "mixed" ->
         CASE i % 4 = 1 -> "withheld"
           [] i % 4 = 2 -> "invalid"
           [] i % 4 = 3 -> "noFeeExtension"
           [] OTHER -> "zeroWithheld"
ProgramAccounts(pattern, n) == [i \in 1..n |-> [pubkey |-> i, kind |-> KindAt(pattern, i)]]

(* feeAmount && feeAmount.withheldAmount > 0n, unpack failures skipped *)
HasWithheldFees(account) == account.kind = "withheld"

RECURSIVE SourcesWithFees(_)
SourcesWithFees(accounts) ==
  IF accounts = <<>> THEN <<>>
  ELSE LET rest == SourcesWithFees(Tail(accounts))
       IN IF HasWithheldFees(Head(accounts)) THEN <<Head(accounts).pubkey>> \o rest ELSE rest

Min(a, b) == IF a <= b THEN a ELSE b

HarvestIx(batch) == [op |-> "HarvestWithheldTokensToMint", sources |-> batch]

(* for (i = 0; i < n; i += 20) push(harvest(slice(i, i + 20))) *)
RECURSIVE HarvestBatches(_, _)
(* Faulty variant: all the sources go into one instruction. *)
HarvestBatches_OneBatch(sources, i) ==
  IF i >= Len(sources) THEN <<>> ELSE <<HarvestIx(sources)>>

HarvestBatches(sources, i) ==
  IF i >= Len(sources) THEN <<>>
  ELSE <<HarvestIx(SubSeq(sources, i + 1, Min(i + BatchSize, Len(sources))))>>
         \o HarvestBatches(sources, i + BatchSize)

CreateAssociatedTokenAccountIx(ata, owner) ==
  [op |-> "CreateAssociatedTokenAccount", ata |-> ata, owner |-> owner]
WithdrawWithheldIx == [op |-> "WithdrawWithheldTokensFromMint", destination |-> "ownerAta"]
BurnCheckedIx(raw, decimals) ==
  [op |-> "BurnChecked", account |-> "targetAta", amount |-> raw, decimals |-> decimals]
TransferCheckedWithHookIx(raw, decimals, extras) ==
  [op |-> "TransferChecked", amount |-> raw, decimals |-> decimals,
   keys |-> TransferCheckedKeys([mint |-> "mint", source |-> "sourceAta",
                                 destination |-> "destAta", authority |-> "payer"])
            \o extras]
UpdateRateIx(rate) == [op |-> "UpdateRateInterestBearingMint", rate |-> rate]

(* What the ledger holds at an associated token address *)
AtaStates == {"absent", "exists"}

(* await connection.getAccountInfo(ata): null for an absent account, the  *)
(* account info for an existing one, a rejection when the RPC call fails. *)
GetAccountInfo(rpcOk, onLedger) ==
  IF ~rpcOk THEN "rejects" ELSE IF onLedger = "exists" THEN "account" ELSE "null"

(* await getAccount(connection, ata, ...): the decoded account, or a throw *)
(* for an absent account just as for an RPC call that fails.               *)
GetAccount(rpcOk, onLedger) ==
  IF rpcOk /\ onLedger = "exists" THEN "account" ELSE "throws"

(* if (!info) push(createAssociatedTokenAccountInstruction(...)) *)
EnsureAta(info, ata, owner) ==
  IF info = "null" THEN <<CreateAssociatedTokenAccountIx(ata, owner)>> ELSE <<>>

(* BigInt(Math.floor(amount * 10 ** decimals)) throws when amount is NaN. *)
Amounts == [isNaN : BOOL, value : 0..MaxAmount]
AmountRawThrows(amount) == amount.isNaN
AmountRaw(amount, decimals) == amount.value * Pow10(decimals)

(* return sendInstructions(connection, payer, instructions, walletSign) *)
CallSendInstructions(ixs, skip) ==
  /\ instructions' = ixs
  /\ skipPreflight' = skip
  /\ pc' = "si_build"

notCaller == <<result, createTokenVars, ledger, resolverVars, anchorVars, otherCalls>>

HarvestCall ==
  /\ pc = "idle"
  /\ operation' = "harvestTransferFees"
  /\ pc' = "hv_getProgramAccounts"
  /\ UNCHANGED <<callerVars, notCaller>>
  /\ UNCHANGED <<readVars, rejected>>
  /\ UNCHANGED concurrentVars

(* await getProgramAccounts, then the filter and the harvest batches *)
HvGetProgramAccounts ==
  /\ pc = "hv_getProgramAccounts"
  /\ \/ /\ pc' = "failed"
        /\ UNCHANGED instructions
        /\ rejected' = rejected \cup {"getProgramAccounts"}
        /\ UNCHANGED programAccounts
     \/ \E pattern \in AccountPatterns, n \in 0..MaxAccounts :
          /\ programAccounts' = ProgramAccounts(pattern, n)
          /\ instructions' = HarvestBatches(SourcesWithFees(programAccounts'), 0)
          /\ pc' = "hv_getAccountInfo"
          /\ UNCHANGED rejected
  /\ UNCHANGED <<operation, skipPreflight, notCaller>>
  /\ UNCHANGED <<configPda, ataOnLedger, ataCheck>>
  /\ UNCHANGED concurrentVars

(* await getAccountInfo(ownerAta), the optional ATA creation, the withdraw, *)
(* and the call of sendInstructions                                         *)
HvGetAccountInfo ==
  /\ pc = "hv_getAccountInfo"
  /\ \E rpcOk \in BOOL, onLedger \in AtaStates :
       LET ownerAtaInfo == GetAccountInfo(rpcOk, onLedger)
       IN /\ ataOnLedger' = onLedger
          /\ ataCheck' = ownerAtaInfo
          /\ IF ownerAtaInfo = "rejects"
               THEN /\ pc' = "failed"
                    /\ rejected' = rejected \cup {"getAccountInfo"}
                    /\ UNCHANGED callerVars
               ELSE /\ CallSendInstructions(
                         instructions \o EnsureAta(ownerAtaInfo, "ownerAta", "payer")
                           \o <<WithdrawWithheldIx>>,
                         DefaultSkipPreflight)
                    /\ UNCHANGED rejected
  /\ UNCHANGED <<operation, notCaller>>
  /\ UNCHANGED <<configPda, programAccounts>>
  /\ UNCHANGED concurrentVars

DelegateBurnCall ==
  /\ pc = "idle"
  /\ operation' = "delegateBurn"
  /\ \E amount \in Amounts, decimals \in 0..MaxDecimals :
       IF AmountRawThrows(amount)
         THEN pc' = "failed" /\ UNCHANGED callerVars
         ELSE CallSendInstructions(<<BurnCheckedIx(AmountRaw(amount, decimals), decimals)>>,
                                   DefaultSkipPreflight)
  /\ UNCHANGED notCaller
  /\ UNCHANGED <<readVars, rejected>>
  /\ UNCHANGED concurrentVars

DelegateTransferCall ==
  /\ pc = "idle"
  /\ operation' = "delegateTransfer"
  /\ \E amount \in Amounts, decimals \in 0..MaxDecimals :
       /\ pc' = IF AmountRawThrows(amount) THEN "failed" ELSE "dt_getAccountInfo"
       /\ transferContext' =
            IF AmountRawThrows(amount) THEN transferContext
            ELSE [mint |-> "mint", source |-> "sourceAta", destination |-> "destAta",
                  authority |-> "payer", amount |-> AmountRaw(amount, decimals),
                  decimals |-> decimals]
  /\ UNCHANGED <<result, createTokenVars, ledger, callerVars, anchorVars, mintOnLedger,
                 probeExtras, mockIxKeys, probes, failedStep, otherCalls>>
  /\ UNCHANGED <<readVars, rejected>>
  /\ UNCHANGED concurrentVars

(* await getAccountInfo(destAta) and the optional ATA creation *)
DtGetAccountInfo ==
  /\ pc = "dt_getAccountInfo"
  /\ \E rpcOk \in BOOL, onLedger \in AtaStates :
       LET destAtaInfo == GetAccountInfo(rpcOk, onLedger)
       IN /\ ataOnLedger' = onLedger
          /\ ataCheck' = destAtaInfo
          /\ IF destAtaInfo = "rejects"
               THEN /\ pc' = "failed"
                    /\ rejected' = rejected \cup {"getAccountInfo"}
                    /\ UNCHANGED instructions
               ELSE /\ instructions' = EnsureAta(destAtaInfo, "destAta", "destWallet")
                    /\ pc' = "dt_transferIx"
                    /\ UNCHANGED rejected
  /\ UNCHANGED <<operation, skipPreflight, notCaller>>
  /\ UNCHANGED <<configPda, programAccounts>>
  /\ UNCHANGED concurrentVars

(* await createTransferCheckedWithTransferHookInstruction (not caught):   *)
(* its getMint can reject, its extra-account resolution can throw, or it  *)
(* resolves to the instruction; then the call of sendInstructions.        *)
DtTransferIx ==
  /\ pc = "dt_transferIx"
  /\ \/ /\ pc' = "failed"
        /\ failedStep' = "getMint"
        /\ rejected' = rejected \cup {"createTransferCheckedWithTransferHookInstruction"}
        /\ UNCHANGED callerVars
     \/ /\ pc' = "failed"
        /\ failedStep' = "addExtraAccountMetasForExecute"
        /\ UNCHANGED <<callerVars, rejected>>
     \/ \E extras \in SeqsUpTo(ExtraMetas, MaxExtra) :
          /\ CallSendInstructions(
               Append(instructions,
                      TransferCheckedWithHookIx(transferContext.amount,
                                                transferContext.decimals, extras)),
               DefaultSkipPreflight)
          /\ UNCHANGED <<failedStep, rejected>>
  /\ UNCHANGED <<operation, result, createTokenVars, ledger, anchorVars, otherCalls,
                 transferContext, mintOnLedger, probeExtras, mockIxKeys, probes>>
  /\ UNCHANGED readVars
  /\ UNCHANGED concurrentVars

UpdateInterestRateCall ==
  /\ pc = "idle"
  /\ operation' = "updateInterestRate"
  /\ \E rate \in 0..MaxRate :
       CallSendInstructions(<<UpdateRateIx(rate)>>, DefaultSkipPreflight)
  /\ UNCHANGED notCaller
  /\ UNCHANGED <<readVars, rejected>>
  /\ UNCHANGED concurrentVars

(* sendInstructions called by the application itself *)
SendInstructionsCall ==
  /\ pc = "idle"
  /\ operation' = "sendInstructions"
  /\ \E skip \in BOOL : CallSendInstructions(<<[op |-> "instruction"]>>, skip)
  /\ UNCHANGED notCaller
  /\ UNCHANGED <<readVars, rejected>>
  /\ UNCHANGED concurrentVars

(* ------------------------------------------------------------------ *)
(* sendInstructions: buildVersionedTransaction, walletSign,            *)
(* sendAndConfirmVersionedTransaction                                  *)
(* ------------------------------------------------------------------ *)
notSend == <<operation, result, createTokenVars, resolverVars, callerVars, otherCalls>>

(* buildVersionedTransaction: await getLatestBlockhash, compile *)
SiBuild ==
  /\ pc = "si_build"
  /\ \/ /\ pc' = "failed"
        /\ rejected' = rejected \cup {"getLatestBlockhash"}
        /\ UNCHANGED compiled
     \/ \E latest \in LaterBlockhashes(compiled) :
          /\ compiled' = latest
          /\ pc' = "si_sign"
          /\ UNCHANGED rejected
  /\ UNCHANGED <<notSend, ledger, anchor, polled>>
  /\ UNCHANGED readVars
  /\ UNCHANGED concurrentVars

SiWalletSign ==
  /\ pc = "si_sign"
  /\ \E ok \in BOOL : pc' = IF ok THEN "si_blockhash" ELSE "failed"
  /\ UNCHANGED <<notSend, ledger, anchorVars>>
  /\ UNCHANGED <<readVars, rejected>>
  /\ UNCHANGED concurrentVars

(* sendAndConfirmVersionedTransaction: await getLatestBlockhash *)
SiGetBlockhash ==
  /\ pc = "si_blockhash"
  /\ \/ /\ pc' = "failed"
        /\ rejected' = rejected \cup {"getLatestBlockhash"}
        /\ UNCHANGED anchor
     \/ \E latest \in LaterBlockhashes(compiled) :
          /\ anchor' = LatestBlockhash(latest)
          /\ pc' = "si_send"
          /\ UNCHANGED rejected
  /\ UNCHANGED <<notSend, ledger, compiled, polled>>
  /\ UNCHANGED readVars
  /\ UNCHANGED concurrentVars

(* Result of awaiting sendRawTransaction: the call rejects, the node's   *)
(* preflight simulation reports an error (the call rejects and nothing   *)
(* is broadcast), or the node accepts the transaction.                   *)
SendOutcomes(skip) == IF skip THEN {"rejects", "accepted"}
                      ELSE {"rejects", "preflightErr", "accepted"}

SiSend ==
  /\ pc = "si_send"
  /\ \E r \in SendOutcomes(skipPreflight) :
       /\ pc' = IF r = "accepted" THEN "si_confirm" ELSE "failed"
       /\ sent' = IF r = "accepted"
                    THEN Append(sent, Submission("tx", skipPreflight, compiled))
                    ELSE sent
       /\ rejected' = IF r = "rejects" THEN rejected \cup {"sendRawTransaction"}
                      ELSE rejected
  /\ UNCHANGED <<notSend, simulated, landed, anchorVars>>
  /\ UNCHANGED readVars
  /\ UNCHANGED concurrentVars

SiConfirm ==
  /\ pc = "si_confirm"
  /\ \E r \in ConfirmOutcomes :
       /\ pc' = IF r = "rejects" THEN "failed" ELSE "done"
       /\ result' = IF r = "rejects" THEN result ELSE <<"signature", "tx">>
       /\ polled' = Append(polled, Poll("tx", anchor))
       /\ landed' = IF r = "statusOk" THEN landed \cup {"tx"} ELSE landed
       /\ rejected' = IF r = "rejects" THEN rejected \cup {"confirmTransaction"}
                      ELSE rejected
  /\ UNCHANGED <<operation, createTokenVars, resolverVars, callerVars, simulated, sent,
                 compiled, anchor, otherCalls>>
  /\ UNCHANGED readVars
  /\ UNCHANGED concurrentVars

(* ------------------------------------------------------------------ *)
(* Time conversions and read-only queries                              *)
(* ------------------------------------------------------------------ *)
notTime == <<createTokenVars, ledger, resolverVars, callerVars, anchorVars, queryVars,
             buyVars, extraAccounts>>

IstTimeToUtcMinuteCall ==
  /\ pc = "idle"
  /\ operation' = "istTimeToUtcMinute"
  /\ \E istTime \in WallClockStrings :
       /\ timeArg' = [string |-> istTime]
       /\ result' = <<istTimeToUtcMinute(istTime)>>
  /\ pc' = "done"
  /\ UNCHANGED notTime
  /\ UNCHANGED <<readVars, rejected>>
  /\ UNCHANGED concurrentVars

UtcMinuteToIstTimeCall ==
  /\ pc = "idle"
  /\ operation' = "utcMinuteToIstTime"
  /\ \E utcMin \in MinuteArgs :
       /\ timeArg' = [minute |-> utcMin]
       /\ result' = <<utcMinuteToIstTime(utcMin)>>
  /\ pc' = "done"
  /\ UNCHANGED notTime
  /\ UNCHANGED <<readVars, rejected>>
  /\ UNCHANGED concurrentVars

UtcMinuteToUtcTimeCall ==
  /\ pc = "idle"
  /\ operation' = "utcMinuteToUtcTime"
  /\ \E utcMin \in MinuteArgs :
       /\ timeArg' = [minute |-> utcMin]
       /\ result' = <<utcMinuteToUtcTime(utcMin)>>
  /\ pc' = "done"
  /\ UNCHANGED notTime
  /\ UNCHANGED <<readVars, rejected>>
  /\ UNCHANGED concurrentVars

notQuery == <<createTokenVars, ledger, callerVars, anchorVars, timeVars, buyVars,
              extraAccounts, transferContext, probeExtras, mockIxKeys, probes, failedStep>>

(* What the ledger holds at a config PDA *)
ConfigStates == {"notInitialized", "initialized"}
HookConfigState == [whitelistEnabled |-> TRUE, openMinute |-> <<>>, closeMinute |-> <<>>]
ICOConfigState == [creator |-> "creator", mint |-> "mint"]

(* try { await account.fetch(pda); return {...} } catch { return null } *)
FetchOrNull_Raises(rpcOk, config, decoded) ==
  IF rpcOk /\ config = "initialized" THEN <<"done", decoded>> ELSE <<"failed", "null">>
FetchOrNull(rpcOk, config, decoded) ==
  IF rpcOk /\ config = "initialized" THEN <<"done", decoded>> ELSE <<"done", "null">>

FetchHookConfigCall ==
  /\ pc = "idle"
  /\ operation' = "fetchHookConfig"
  /\ \E config \in ConfigStates : configOnLedger' = config
  /\ \E mintAddress \in Mints : configPda' = deriveHookConfigPDA(mintAddress)
  /\ pc' = "fh_fetch"
  /\ UNCHANGED <<result, mintOnLedger, notQuery>>
  /\ UNCHANGED <<programAccounts, ataOnLedger, ataCheck, rejected>>
  /\ UNCHANGED concurrentVars

FhFetch ==
  /\ pc = "fh_fetch"
  /\ \E rpcOk \in BOOL :
       LET outcome == FetchOrNull(rpcOk, configOnLedger, HookConfigState)
       IN /\ pc' = outcome[1]
          /\ result' = <<outcome[2]>>
          /\ rejected' = IF rpcOk THEN rejected ELSE rejected \cup {"fetchHookConfig.fetch"}
  /\ UNCHANGED <<operation, configOnLedger, mintOnLedger, notQuery>>
  /\ UNCHANGED readVars
  /\ UNCHANGED concurrentVars

FetchICOConfigCall ==
  /\ pc = "idle"
  /\ operation' = "fetchICOConfig"
  /\ \E config \in ConfigStates : configOnLedger' = config
  /\ \E mintAddress \in Mints : configPda' = deriveICOConfigAccountPDA(mintAddress)
  /\ pc' = "fi_fetch"
  /\ UNCHANGED <<result, mintOnLedger, notQuery>>
  /\ UNCHANGED <<programAccounts, ataOnLedger, ataCheck, rejected>>
  /\ UNCHANGED concurrentVars

FiFetch ==
  /\ pc = "fi_fetch"
  /\ \E rpcOk \in BOOL :
       LET outcome == FetchOrNull(rpcOk, configOnLedger, ICOConfigState)
       IN /\ pc' = outcome[1]
          /\ result' = <<outcome[2]>>
          /\ rejected' = IF rpcOk THEN rejected ELSE rejected \cup {"fetchICOConfig.fetch"}
  /\ UNCHANGED <<operation, configOnLedger, mintOnLedger, notQuery>>
  /\ UNCHANGED readVars
  /\ UNCHANGED concurrentVars

(* hookData && hookData.programId is not the default key *)
hasTransferHook(m) ==
  LET hookData == getTransferHook(m)
  IN hookData # <<>> /\ hookData[1].programId # "PublicKey.default"

DetectExtensionsCall ==
  /\ pc = "idle"
  /\ operation' = "detectExtensions"
  /\ \E m \in MintStates : mintOnLedger' = m
  /\ pc' = "de_getMint"
  /\ UNCHANGED <<result, configOnLedger, notQuery>>
  /\ UNCHANGED <<readVars, rejected>>
  /\ UNCHANGED concurrentVars

(* await getMint stands outside every try: its rejection is the call's *)
DeGetMint ==
  /\ pc = "de_getMint"
  /\ \E rpcOk \in BOOL :
       /\ IF ~rpcOk \/ mintOnLedger = "notFound"
            THEN pc' = "failed" /\ result' = result
            ELSE /\ pc' = "done"
                 /\ result' = <<[hasTransferHook |-> hasTransferHook(mintOnLedger)]>>
       /\ rejected' = IF rpcOk THEN rejected ELSE rejected \cup {"getMint"}
  /\ UNCHANGED <<operation, configOnLedger, mintOnLedger, notQuery>>
  /\ UNCHANGED readVars
  /\ UNCHANGED concurrentVars

(* ------------------------------------------------------------------ *)
(* buyToken                                                            *)
(* ------------------------------------------------------------------ *)
BuyDecimals == 9

(* The accounts object handed to .accounts({...}) *)
PurchaseAccounts(creator, program) ==
  [buyer |-> "payer", mint |-> "mint", config |-> "config", creator |-> creator,
   icoConfigAccount |-> "icoConfigAccount", icoVaultAccount |-> "icoVaultAccount",
   vaultAta |-> "vaultAta", buyerAta |-> "buyerAta", tokenProgram |-> program,
   associatedTokenProgram |-> "ASSOCIATED_TOKEN_PROGRAM_ID",
   systemProgram |-> "SystemProgram.programId"]

(* The account list of purchase_token in idl/ico.json, by which the     *)
(* method builder orders the named accounts.                             *)
PurchaseTokenIdlAccounts ==
  <<"buyer", "mint", "config", "creator", "icoConfigAccount", "icoVaultAccount",
    "vaultAta", "buyerAta", "tokenProgram", "associatedTokenProgram", "systemProgram">>

NamedKeys(accounts, order) == [i \in 1..Len(order) |-> [pubkey |-> accounts[order[i]]]]

(* .accounts({...}).remainingAccounts(extraAccounts) *)
PurchaseKeys_NoRemaining(accounts, remaining) == NamedKeys(accounts, PurchaseTokenIdlAccounts)
PurchaseKeys_RemainingFirst(accounts, remaining) ==
  remaining \o NamedKeys(accounts, PurchaseTokenIdlAccounts)
PurchaseKeys(accounts, remaining) ==
  NamedKeys(accounts, PurchaseTokenIdlAccounts) \o remaining

PurchaseTokenIx(amount, keys) == [op |-> "purchaseToken", amount |-> amount, keys |-> keys]

(* The transfer the purchase makes, vault to buyer, as handed to the    *)
(* resolver; amounts are in whole tokens.                                *)
PurchaseTransfer(amount) ==
  [mint |-> "mint", source |-> "vaultAta", destination |-> "buyerAta",
   authority |-> "icoVaultAccount", amount |-> amount, decimals |-> BuyDecimals]

(* getTokenProgram: mintInfo?.owner.equals(TOKEN_2022_PROGRAM_ID) *)
MintOwners == {"TOKEN_2022_PROGRAM_ID", "TOKEN_PROGRAM_ID", "null"}
TokenProgramOf(owner) ==
  IF owner = "TOKEN_2022_PROGRAM_ID" THEN owner ELSE "TOKEN_PROGRAM_ID"

(* Faulty variant: only an absent account gets a creation instruction,    *)
(* a failing existence check gets none.                                   *)
PreInstructions_OnlyWhenAbsent(check, onLedger, ata, owner) ==
  IF onLedger = "absent" THEN <<CreateAssociatedTokenAccountIx(ata, owner)>> ELSE <<>>

(* Faulty variant: no creation instruction at all. *)
PreInstructions_Never(check, onLedger, ata, owner) == <<>>

(* try { await getAccount(...); return [] } catch { return [create ATA] } *)
PreInstructions(check, onLedger, ata, owner) ==
  IF check = "throws" THEN <<CreateAssociatedTokenAccountIx(ata, owner)>> ELSE <<>>

notBuy == <<createTokenVars, simulated, sent, anchorVars, queryVars, timeVars, skipPreflight,
            mockIxKeys, probes, failedStep>>

BuyTokenCall ==
  /\ pc = "idle"
  /\ operation' = "buyToken"
  /\ \E amount \in 0..MaxAmount : transferContext' = PurchaseTransfer(amount)
  /\ pc' = "bt_getTokenProgram"
  /\ UNCHANGED <<result, landed, instructions, tokenProgram, extraAccounts, mintOnLedger,
                 probeExtras, notBuy>>
  /\ UNCHANGED <<readVars, rejected>>
  /\ UNCHANGED concurrentVars

(* getTokenProgram: await getAccountInfo(mint), owner test *)
BtGetTokenProgram ==
  /\ pc = "bt_getTokenProgram"
  /\ \/ /\ pc' = "failed"
        /\ rejected' = rejected \cup {"getAccountInfo"}
        /\ UNCHANGED tokenProgram
     \/ \E owner \in MintOwners :
          /\ tokenProgram' = TokenProgramOf(owner)
          /\ pc' = "bt_fetch"
          /\ UNCHANGED rejected
  /\ UNCHANGED <<operation, result, landed, instructions, extraAccounts, transferContext,
                 mintOnLedger, probeExtras, notBuy>>
  /\ UNCHANGED readVars
  /\ UNCHANGED concurrentVars

(* await icoConfigAccount.fetch (not caught), then the resolver for a   *)
(* Token-2022 mint and no extra accounts otherwise                       *)
BtFetch ==
  /\ pc = "bt_fetch"
  /\ \/ /\ pc' = "failed"
        /\ rejected' = rejected \cup {"icoConfigAccount.fetch"}
        /\ UNCHANGED <<extraAccounts, mintOnLedger, probeExtras>>
     \/ /\ tokenProgram = "TOKEN_2022_PROGRAM_ID"
        /\ \E m \in MintStates :
             /\ mintOnLedger' = m
             /\ \E x \in SeqsUpTo(ExtraMetas, MaxExtra) :
                  probeExtras' = ProbeAppends(m, x)
        /\ pc' = "rs_getMint"
        /\ UNCHANGED <<extraAccounts, rejected>>
     \/ /\ tokenProgram # "TOKEN_2022_PROGRAM_ID"
        /\ extraAccounts' = <<>>
        /\ pc' = "bt_getAccount"
        /\ UNCHANGED <<mintOnLedger, probeExtras, rejected>>
  /\ UNCHANGED <<operation, result, landed, instructions, tokenProgram, transferContext,
                 notBuy>>
  /\ UNCHANGED readVars
  /\ UNCHANGED concurrentVars

(* try { await getAccount(buyerAta); [] } catch { [create ATA] } *)
BtGetAccount ==
  /\ pc = "bt_getAccount"
  /\ \E rpcOk \in BOOL, onLedger \in AtaStates :
       /\ ataOnLedger' = onLedger
       /\ ataCheck' = GetAccount(rpcOk, onLedger)
       /\ instructions' = PreInstructions(ataCheck', onLedger, "buyerAta", "payer")
       /\ rejected' = IF rpcOk THEN rejected ELSE rejected \cup {"getAccount"}
  /\ pc' = "bt_rpc"
  /\ UNCHANGED <<operation, result, landed, tokenProgram, extraAccounts, transferContext,
                 mintOnLedger, probeExtras, notBuy>>
  /\ UNCHANGED <<configPda, programAccounts>>
  /\ UNCHANGED concurrentVars

(* program.methods.purchaseToken(...).accounts(...).remainingAccounts(...) *)
(* .preInstructions(preIxs).rpc()                                          *)
BtRpc ==
  /\ pc = "bt_rpc"
  /\ instructions' =
       Append(instructions,
              PurchaseTokenIx(transferContext.amount,
                              PurchaseKeys(PurchaseAccounts(ICOConfigState.creator,
                                                            tokenProgram),
                                           extraAccounts)))
  /\ \E ok \in BOOL :
       /\ pc' = IF ok THEN "done" ELSE "failed"
       /\ result' = IF ok THEN <<"signature", "tx">> ELSE result
       /\ landed' = IF ok THEN landed \cup {"tx"} ELSE landed
       /\ rejected' = IF ok THEN rejected ELSE rejected \cup {"rpc"}
  /\ UNCHANGED <<operation, tokenProgram, extraAccounts, transferContext, mintOnLedger,
                 probeExtras, notBuy>>
  /\ UNCHANGED readVars
  /\ UNCHANGED concurrentVars

(* ------------------------------------------------------------------ *)
(* launchICO                                                           *)
(* ------------------------------------------------------------------ *)
(* The accounts object handed to .accounts({...}) of initializeIco *)
InitializeIcoAccounts(program) ==
  [creator |-> "payer", mint |-> "mint", config |-> "config",
   icoConfigAccount |-> "icoConfigAccount", icoVaultAccount |-> "icoVaultAccount",
   vaultAta |-> "vaultAta", creatorAta |-> "creatorAta", tokenProgram |-> program,
   associatedTokenProgram |-> "ASSOCIATED_TOKEN_PROGRAM_ID",
   systemProgram |-> "SystemProgram.programId"]

InitializeIcoIx(amount, accounts, remaining) ==
  [op |-> "initializeIco", amount |-> amount, accounts |-> accounts,
   remainingAccounts |-> remaining]

(* The deposit the launch makes, creator to vault, as handed to the     *)
(* resolver; amounts are in whole tokens.                                *)
DepositTransfer(amount) ==
  [mint |-> "mint", source |-> "creatorAta", destination |-> "vaultAta",
   authority |-> "payer", amount |-> amount, decimals |-> BuyDecimals]

LaunchICOCall ==
  /\ pc = "idle"
  /\ operation' = "launchICO"
  /\ \E amount \in 0..MaxAmount : transferContext' = DepositTransfer(amount)
  /\ pc' = "li_getTokenProgram"
  /\ UNCHANGED <<result, landed, instructions, tokenProgram, extraAccounts, mintOnLedger,
                 probeExtras, notBuy>>
  /\ UNCHANGED <<readVars, rejected>>
  /\ UNCHANGED concurrentVars

(* getTokenProgram: await getAccountInfo(mint), owner test; then the     *)
(* resolver for a Token-2022 mint and no extra accounts otherwise        *)
LiGetTokenProgram ==
  /\ pc = "li_getTokenProgram"
  /\ \/ /\ pc' = "failed"
        /\ rejected' = rejected \cup {"getAccountInfo"}
        /\ UNCHANGED <<tokenProgram, extraAccounts, mintOnLedger, probeExtras>>
     \/ \E owner \in MintOwners :
          /\ tokenProgram' = TokenProgramOf(owner)
          /\ IF tokenProgram' = "TOKEN_2022_PROGRAM_ID"
               THEN /\ \E m \in MintStates :
                         /\ mintOnLedger' = m
                         /\ \E x \in SeqsUpTo(ExtraMetas, MaxExtra) :
                              probeExtras' = ProbeAppends(m, x)
                    /\ pc' = "rs_getMint"
                    /\ UNCHANGED extraAccounts
               ELSE /\ extraAccounts' = <<>>
                    /\ pc' = "li_getAccount"
                    /\ UNCHANGED <<mintOnLedger, probeExtras>>
          /\ UNCHANGED rejected
  /\ UNCHANGED <<operation, result, landed, instructions, transferContext, notBuy>>
  /\ UNCHANGED readVars
  /\ UNCHANGED concurrentVars

(* try { await getAccount(creatorAta); [] } catch { [create ATA] } *)
LiGetAccount ==
  /\ pc = "li_getAccount"
  /\ \E rpcOk \in BOOL, onLedger \in AtaStates :
       /\ ataOnLedger' = onLedger
       /\ ataCheck' = GetAccount(rpcOk, onLedger)
       /\ instructions' = PreInstructions(ataCheck', onLedger, "creatorAta", "payer")
       /\ rejected' = IF rpcOk THEN rejected ELSE rejected \cup {"getAccount"}
  /\ pc' = "li_rpc"
  /\ UNCHANGED <<operation, result, landed, tokenProgram, extraAccounts, transferContext,
                 mintOnLedger, probeExtras, notBuy>>
  /\ UNCHANGED <<configPda, programAccounts>>
  /\ UNCHANGED concurrentVars

(* program.methods.initializeIco(...).accounts(...).remainingAccounts(...) *)
(* .preInstructions(preIxs).rpc()                                          *)
LiRpc ==
  /\ pc = "li_rpc"
  /\ instructions' =
       Append(instructions,
              InitializeIcoIx(transferContext.amount, InitializeIcoAccounts(tokenProgram),
                              extraAccounts))
  /\ \E ok \in BOOL :
       /\ pc' = IF ok THEN "done" ELSE "failed"
       /\ result' = IF ok THEN <<"signature", "tx">> ELSE result
       /\ landed' = IF ok THEN landed \cup {"tx"} ELSE landed
       /\ rejected' = IF ok THEN rejected ELSE rejected \cup {"rpc"}
  /\ UNCHANGED <<operation, tokenProgram, extraAccounts, transferContext, mintOnLedger,
                 probeExtras, notBuy>>
  /\ UNCHANGED readVars
  /\ UNCHANGED concurrentVars

(* The call has ended (a result or a rejection); its locals are gone and   *)
(* the next call is observed afresh.                                       *)
Return ==
  /\ pc \in {"done", "failed"}
  /\ pc' = "idle"
  /\ operation' = "none"
  /\ result' = NoResult
  /\ extensions' = NoExtensions
  /\ metadata' = DefaultMetadata
  /\ hookConfig' = NoHookConfig
  /\ extensionTypes' = <<>>
  /\ transaction' = <<>>
  /\ simulated' = {}
  /\ sent' = <<>>
  /\ landed' = {}
  /\ instructions' = <<>>
  /\ skipPreflight' = DefaultSkipPreflight
  /\ compiled' = 0
  /\ anchor' = NoAnchor
  /\ polled' = <<>>
  /\ configOnLedger' = "none"
  /\ timeArg' = NoTimeArg
  /\ tokenProgram' = "none"
  /\ extraAccounts' = <<>>
  /\ configPda' = NoAddress
  /\ programAccounts' = <<>>
  /\ ataOnLedger' = "none"
  /\ ataCheck' = "none"
  /\ rejected' = {}
  /\ transferContext' = NoTransferContext
  /\ mintOnLedger' = "notFound"
  /\ probeExtras' = <<>>
  /\ mockIxKeys' = <<>>
  /\ probes' = 0
  /\ failedStep' = "none"
  /\ UNCHANGED concurrentVars

Next ==
  \/ CreateTokenCall
  \/ UploadImage
  \/ UploadJson
  \/ SizeMint
  \/ BuildTx1
  \/ InitRegistry
  \/ GetBlockhash1
  \/ Simulate1
  \/ WalletSign1
  \/ Send1
  \/ Confirm1
  \/ GetBlockhash2
  \/ Simulate2
  \/ WalletSign2
  \/ Send2
  \/ Confirm2
  \/ ResolveCall
  \/ RsGetMint
  \/ RsProbe
  \/ HarvestCall
  \/ HvGetProgramAccounts
  \/ HvGetAccountInfo
  \/ DelegateBurnCall
  \/ DelegateTransferCall
  \/ DtGetAccountInfo
  \/ DtTransferIx
  \/ UpdateInterestRateCall
  \/ SendInstructionsCall
  \/ SiBuild
  \/ SiWalletSign
  \/ SiGetBlockhash
  \/ SiSend
  \/ SiConfirm
  \/ IstTimeToUtcMinuteCall
  \/ UtcMinuteToIstTimeCall
  \/ UtcMinuteToUtcTimeCall
  \/ FetchHookConfigCall
  \/ FhFetch
  \/ FetchICOConfigCall
  \/ FiFetch
  \/ DetectExtensionsCall
  \/ DeGetMint
  \/ BuyTokenCall
  \/ BtGetTokenProgram
  \/ BtFetch
  \/ BtGetAccount
  \/ BtRpc
  \/ LaunchICOCall
  \/ LiGetTokenProgram
  \/ LiGetAccount
  \/ LiRpc
  \/ Return

Spec == Init /\ [][Next]_vars

(* ------------------------------------------------------------------ *)
(* Concurrent invocations of launchICO and buyToken on one mint        *)
(* ------------------------------------------------------------------ *)
(* The extra-account lists the hook's policy record can hold *)
Policies ==
  {<<>>,
   <<AccountMeta("extraA", FALSE, FALSE)>>,
   <<AccountMeta("extraA", FALSE, FALSE), AccountMeta("extraB", TRUE, FALSE)>>}

(* Faulty variant: a read made by an earlier invocation is handed out again. *)
LedgerRead_Cached(onLedger, earlier) ==
  IF earlier # <<>> THEN earlier[1] ELSE onLedger

(* await getMint / addExtraAccountMetasForExecute inside one invocation:  *)
(* what the ledger holds now; the module keeps nothing between calls.     *)
LedgerRead(onLedger, earlier) == onLedger

(* The transfer an invocation resolves for *)
TransferOf(c) ==
  IF c.op = "launchICO" THEN DepositTransfer(c.amount) ELSE PurchaseTransfer(c.amount)

(* The instruction an invocation submits after its pre-instructions *)
MainIx(c) ==
  IF c.op = "launchICO"
    THEN InitializeIcoIx(c.amount, InitializeIcoAccounts("TOKEN_2022_PROGRAM_ID"),
                         c.extraAccounts)
    ELSE PurchaseTokenIx(c.amount,
                         PurchaseKeys(PurchaseAccounts(ICOConfigState.creator,
                                                       "TOKEN_2022_PROGRAM_ID"),
                                      c.extraAccounts))

OwnAta(c) == IF c.op = "launchICO" THEN "creatorAta" ELSE "buyerAta"

(* launchICO / buyToken is entered with its arguments. *)
CcCall(i) ==
  /\ calls[i].pc = "idle"
  /\ \E op \in {"launchICO", "buyToken"}, amount \in 1..MaxAmount :
       calls' = [calls EXCEPT ![i] =
                   [IdleCall EXCEPT !.pc = "resolve", !.op = op, !.amount = amount]]
  /\ UNCHANGED <<hookPolicy, payerAta, lastRead, sequentialVars>>

(* await resolveTransferHookAccounts(...): the policy is read from the    *)
(* ledger, or the read fails and the resolver returns [].                 *)
CcResolve(i) ==
  /\ calls[i].pc = "resolve"
  /\ \E rpcOk \in BOOL :
       LET read == LedgerRead(hookPolicy, lastRead)
           keys == TransferCheckedKeys(TransferOf(calls[i])) \o read
       IN /\ calls' = [calls EXCEPT
                         ![i].pc = "getAccount",
                         ![i].resolved = rpcOk,
                         ![i].policyAtRead = hookPolicy,
                         ![i].extraAccounts =
                           IF rpcOk THEN ExtraAccountsOf(keys) ELSE OnResolveFailure(keys)]
          /\ lastRead' = IF rpcOk THEN <<read>> ELSE lastRead
  /\ UNCHANGED <<hookPolicy, payerAta, sequentialVars>>

(* try { await getAccount(ata); [] } catch { [create ATA] } *)
CcGetAccount(i) ==
  /\ calls[i].pc = "getAccount"
  /\ \E rpcOk \in BOOL :
       LET check == GetAccount(rpcOk, payerAta)
       IN calls' = [calls EXCEPT
                      ![i].pc = "rpc",
                      ![i].ataCheck = check,
                      ![i].plan = PreInstructions(check, payerAta, OwnAta(calls[i]), "payer")]
  /\ UNCHANGED <<hookPolicy, payerAta, lastRead, sequentialVars>>

(* .preInstructions(preIxs).rpc(): the transaction lands, creating the    *)
(* account it plans to create, or it fails; creating an account that      *)
(* exists by now fails it.                                                *)
CcRpc(i) ==
  /\ calls[i].pc = "rpc"
  /\ LET plan == Append(calls[i].plan, MainIx(calls[i]))
         creates == calls[i].plan # <<>>
     IN \E ok \in BOOL :
          LET lands == ok /\ ~(creates /\ payerAta = "exists")
          IN /\ calls' = [calls EXCEPT ![i].pc = IF lands THEN "done" ELSE "failed",
                                       ![i].plan = plan]
             /\ payerAta' = IF lands /\ creates THEN "exists" ELSE payerAta
  /\ UNCHANGED <<hookPolicy, lastRead, sequentialVars>>

(* The invocation has ended; its locals are gone. *)
CcReturn(i) ==
  /\ calls[i].pc \in {"done", "failed"}
  /\ calls' = [calls EXCEPT ![i] = IdleCall]
  /\ UNCHANGED <<hookPolicy, payerAta, lastRead, sequentialVars>>

(* The policy of the mint is changed on chain by its owner. *)
PolicyChange ==
  /\ \E policy \in Policies \ {hookPolicy} : hookPolicy' = policy
  /\ UNCHANGED <<calls, payerAta, lastRead, sequentialVars>>

NextConcurrent ==
  \/ \E i \in Invocations : CcCall(i)
  \/ \E i \in Invocations : CcResolve(i)
  \/ \E i \in Invocations : CcGetAccount(i)
  \/ \E i \in Invocations : CcRpc(i)
  \/ \E i \in Invocations : CcReturn(i)
  \/ PolicyChange

SpecConcurrent == Init /\ [][NextConcurrent]_vars

(* ------------------------------------------------------------------ *)
(* Properties of the Tx1 plan                                          *)
(* ------------------------------------------------------------------ *)
ExtInitOps ==
  {"InitializeNonTransferableMint", "InitializePermanentDelegate",
   "InitializeTransferFeeConfig", "InitializeInterestBearingMint",
   "InitializeTransferHook"}

EnableOps == {"EnableRequiredMemoTransfers", "EnableCpiGuard"}

Positions(tx, ops) == {i \in 1..Len(tx) : tx[i].op \in ops}

Range(seq) == {seq[i] : i \in 1..Len(seq)}

IsExtInit(ix) == ix.op \in ExtInitOps

(* The extension-initialization instructions of a plan, in plan order. *)
InitsOf(tx) == SelectSeq(tx, IsExtInit)

(* The extension list has been built / instructions 1..4 have been added / *)
(* the whole Tx1 plan has been built.                                      *)
Started == Len(transaction) > 0
Sized == Started \/ pc = "buildTx1"
Tx1Built ==
  /\ operation = "createToken"
  /\ pc \in {"planBuilt", "simulate1", "sign1", "send1", "confirm1", "blockhash2",
             "simulate2", "sign2", "send2", "confirm2", "done"}

(* C1: with nonTransferable requested, whatever else is requested, the plan *)
(* has no permanent-delegate, transfer-fee or transfer-hook initialization  *)
(* and no registry instruction, and the list that sizes the mint has none   *)
(* of PermanentDelegate, TransferFeeConfig, TransferHook.                   *)
C1_NonTransferableExcludes ==
  extensions.nonTransferable =>
    /\ Positions(transaction, {"InitializePermanentDelegate",
                               "InitializeTransferFeeConfig",
                               "InitializeTransferHook",
                               "InitializeRegistry"}) = {}
    /\ Range(extensionTypes)
         \cap {"PermanentDelegate", "TransferFeeConfig", "TransferHook"} = {}
    /\ Started =>
         Range(transaction[1].mintLenOf)
           \cap {"PermanentDelegate", "TransferFeeConfig", "TransferHook"} = {}

C1_Witness ==
  /\ Tx1Built
  /\ extensions.nonTransferable
  /\ extensions.permanentDelegation
  /\ Present(extensions.transferFee)
  /\ ~extensions.cpiGuard
  /\ "NonTransferable" \in Range(extensionTypes)

(* C2: with cpiGuard requested, whatever else is requested, the plan has    *)
(* neither the transfer-hook initialization nor the registry instruction,   *)
(* and the list that sizes the mint does not contain TransferHook.          *)
C2_CpiGuardExcludesHook ==
  extensions.cpiGuard =>
    /\ Positions(transaction, {"InitializeTransferHook", "InitializeRegistry"}) = {}
    /\ "TransferHook" \notin Range(extensionTypes)
    /\ Started => "TransferHook" \notin Range(transaction[1].mintLenOf)

C2_Witness ==
  /\ Tx1Built
  /\ extensions.cpiGuard
  /\ ~extensions.nonTransferable
  /\ Positions(transaction, {"EnableCpiGuard"}) # {}

(* The resolved capability set of a request: what createToken declares   *)
(* and initializes for it.                                                *)
Resolved(ext) ==
  [transferHook |-> ~isTransferHookDisabled(ext),
   permanentDelegation |-> ext.permanentDelegation /\ ~isPermanentDelegateDisabled(ext),
   transferFee |-> IF isTransferFeeDisabled(ext) THEN <<>> ELSE ext.transferFee,
   interestBearing |-> ext.interestBearing,
   memoTransfer |-> ext.memoTransfer,
   nonTransferable |-> ext.nonTransferable,
   cpiGuard |-> ext.cpiGuard]

(* A resolved set read back as a request: the six TokenExtensions fields. *)
AsRequest(res) ==
  [permanentDelegation |-> res.permanentDelegation,
   transferFee |-> res.transferFee,
   interestBearing |-> res.interestBearing,
   memoTransfer |-> res.memoTransfer,
   nonTransferable |-> res.nonTransferable,
   cpiGuard |-> res.cpiGuard]

(* C3: conflict resolution is idempotent: resolving the resolved set of    *)
(* the request again gives the same resolved set, the same extension list  *)
(* in the same order and the same extension initializations.               *)
C3_ResolveIdempotent ==
  Sized =>
    LET again == AsRequest(Resolved(extensions))
    IN /\ Resolved(again) = Resolved(extensions)
       /\ BuildExtensionTypes(again) = extensionTypes
       /\ Started => ExtensionInits(again) = InitsOf(transaction)

C3_Witness ==
  /\ Tx1Built
  /\ extensions.nonTransferable
  /\ extensions.permanentDelegation
  /\ Present(extensions.transferFee)
  /\ AsRequest(Resolved(extensions)) # extensions

(* Rank of an extension in the priority order non-transferability,        *)
(* permanent-delegate, transfer-fee, interest-accrual, transfer-policy.   *)
PriorityRank(t) ==
  CASE t = "NonTransferable" -> 1
    [] t = "PermanentDelegate" -> 2
    [] t = "TransferFeeConfig" -> 3
    [] t = "InterestBearingConfig" -> 4
    [] t = "TransferHook" -> 5

(* Rank of an extension in the order the identifier list is pushed. *)
PushRank(t) ==
  CASE t = "TransferHook" -> 1
    [] t = "PermanentDelegate" -> 2
    [] t = "TransferFeeConfig" -> 3
    [] t = "InterestBearingConfig" -> 4
    [] t = "NonTransferable" -> 5

(* The extension an initialization instruction initializes. *)
ExtensionOfInit(op) ==
  CASE op = "InitializeNonTransferableMint" -> "NonTransferable"
    [] op = "InitializePermanentDelegate" -> "PermanentDelegate"
    [] op = "InitializeTransferFeeConfig" -> "TransferFeeConfig"
    [] op = "InitializeInterestBearingMint" -> "InterestBearingConfig"
    [] op = "InitializeTransferHook" -> "TransferHook"

(* The mint-level capabilities that survive conflict resolution. *)
Survivors(ext) ==
  {t \in {"NonTransferable"} : ext.nonTransferable}
  \cup {t \in {"PermanentDelegate"} : ext.permanentDelegation /\ ~ext.nonTransferable}
  \cup {t \in {"TransferFeeConfig"} : Present(ext.transferFee) /\ ~ext.nonTransferable}
  \cup {t \in {"InterestBearingConfig"} : Present(ext.interestBearing)}
  \cup {t \in {"TransferHook"} : ~ext.nonTransferable /\ ~ext.cpiGuard}

StrictlyIncreasing(seq, Rank(_)) ==
  \A i, j \in 1..Len(seq) : i < j => Rank(seq[i]) < Rank(seq[j])

OnlyFeeAndInterest(ext) ==
  /\ Present(ext.transferFee)
  /\ Present(ext.interestBearing)
  /\ ~ext.permanentDelegation
  /\ ~ext.memoTransfer
  /\ ~ext.nonTransferable
  /\ ~ext.cpiGuard

(* C4 as stated: the extension identifier list is in the priority order    *)
(* non-transferability, permanent-delegate, transfer-fee, interest-accrual, *)
(* transfer-policy-gate, and a request of only transferFee and              *)
(* interestBearing gives [transferFee, interestBearing].                    *)
C4_Original_IdentifierPriorityOrder ==
  Sized =>
    /\ StrictlyIncreasing(extensionTypes, PriorityRank)
    /\ OnlyFeeAndInterest(extensions) =>
         extensionTypes = <<"TransferFeeConfig", "InterestBearingConfig">>

(* C4 amended: the identifier list holds exactly the surviving capabilities *)
(* in the order transfer-policy-gate, permanent-delegate, transfer-fee,     *)
(* interest-accrual, non-transferability; the initialization instructions   *)
(* of the plan are the ones in the priority order non-transferability,      *)
(* permanent-delegate, transfer-fee, interest-accrual, transfer-policy-gate;*)
(* only transferFee and interestBearing gives the identifier list           *)
(* [TransferHook, TransferFeeConfig, InterestBearingConfig].                *)
C4_IdentifierPushOrder ==
  Sized =>
    /\ Range(extensionTypes) = Survivors(extensions)
    /\ StrictlyIncreasing(extensionTypes, PushRank)
    /\ OnlyFeeAndInterest(extensions) =>
         extensionTypes = <<"TransferHook", "TransferFeeConfig", "InterestBearingConfig">>
    /\ Started =>
         LET inits == [i \in 1..Len(InitsOf(transaction)) |->
                         ExtensionOfInit(InitsOf(transaction)[i].op)]
         IN /\ Range(inits) = Survivors(extensions)
            /\ StrictlyIncreasing(inits, PriorityRank)

C4_Witness ==
  /\ Tx1Built
  /\ OnlyFeeAndInterest(extensions)
  /\ Len(extensionTypes) = 3
  /\ Len(InitsOf(transaction)) = 3

IsScenarioC5(ext) ==
  /\ ext.transferFee = <<[feeBasisPoints |-> 50, maxFee |-> 5000]>>
  /\ ext.permanentDelegation
  /\ ext.nonTransferable
  /\ ~Present(ext.interestBearing)
  /\ ~ext.memoTransfer
  /\ ~ext.cpiGuard

(* C5 as stated: the request {transferFee 50bps/5000, permanentDelegation, *)
(* nonTransferable} declares no extension identifier for the mint and emits *)
(* no extension-initialization instruction.                                 *)
C5_Original_ScenarioEmpty ==
  (IsScenarioC5(extensions) /\ Sized) =>
    /\ extensionTypes = <<>>
    /\ InitsOf(transaction) = <<>>

(* C5 amended: that request resolves to non-transferability alone: the    *)
(* identifier list is [NonTransferable], the only extension-initialization *)
(* instruction is InitializeNonTransferableMint, and the plan has no       *)
(* registry instruction.                                                   *)
C5_ScenarioNonTransferableOnly ==
  (IsScenarioC5(extensions) /\ Sized) =>
    /\ extensionTypes = <<"NonTransferable">>
    /\ Started =>
         /\ Len(InitsOf(transaction)) = 1
         /\ InitsOf(transaction)[1].op = "InitializeNonTransferableMint"
         /\ Positions(transaction, {"InitializeRegistry"}) = {}

C5_Witness ==
  /\ Tx1Built
  /\ IsScenarioC5(extensions)
  /\ Len(transaction) = 5

(* C6: in every Tx1 plan the CreateAccount of the mint is the first        *)
(* instruction, it is sized from the extension list, and it comes before   *)
(* every extension-initialization instruction.                             *)
C6_CreateAccountFirst ==
  Started =>
    /\ transaction[1].op = "CreateAccount"
    /\ transaction[1].mintLenOf = extensionTypes
    /\ Positions(transaction, {"CreateAccount"}) = {1}
    /\ \A i \in Positions(transaction, ExtInitOps) : 1 < i

C6_Witness ==
  /\ Tx1Built
  /\ Len(InitsOf(transaction)) >= 3
  /\ transaction[1].op = "CreateAccount"

(* C7: in every Tx1 plan there is exactly one InitializeMint, every        *)
(* extension-initialization instruction comes before it and none after it. *)
C7_ExtensionInitsBeforeInitializeMint ==
  Started =>
    /\ Cardinality(Positions(transaction, {"InitializeMint"})) = 1
    /\ \A i \in Positions(transaction, ExtInitOps) :
         \A m \in Positions(transaction, {"InitializeMint"}) : i < m

C7_Witness ==
  /\ Tx1Built
  /\ Len(InitsOf(transaction)) >= 3
  /\ Positions(transaction, {"InitializeMint"}) = {Len(InitsOf(transaction)) + 2}

(* C8: in every Tx1 plan InitializeMint, the creation of the owner's       *)
(* associated token account and MintTo each appear exactly once, in that   *)
(* order.                                                                  *)
C8_MintThenATAThenMintTo ==
  Tx1Built =>
    LET ms == Positions(transaction, {"InitializeMint"})
        as == Positions(transaction, {"CreateAssociatedTokenAccount"})
        ts == Positions(transaction, {"MintTo"})
    IN /\ Cardinality(ms) = 1
       /\ Cardinality(as) = 1
       /\ Cardinality(ts) = 1
       /\ \A m \in ms : \A a \in as : m < a
       /\ \A a \in as : \A t \in ts : a < t

C8_Witness ==
  /\ Tx1Built
  /\ Positions(transaction, {"MintTo"}) # {}
  /\ \E i \in 1..Len(transaction) :
       transaction[i].op = "MintTo" /\ transaction[i].amount = 5

RequestedAccountExtensions(ext) ==
  {t \in {"MemoTransfer"} : ext.memoTransfer} \cup {t \in {"CpiGuard"} : ext.cpiGuard}

(* C9: when memoTransfer or cpiGuard is requested the plan has one         *)
(* Reallocate of the owner's token account, after MintTo and before every  *)
(* enable instruction, declaring exactly the requested account-level       *)
(* extensions; when neither is requested it has no Reallocate and no       *)
(* enable instruction.                                                     *)
C9_ReallocateBeforeEnable ==
  Tx1Built =>
    IF extensions.memoTransfer \/ extensions.cpiGuard
      THEN \E r \in 1..Len(transaction) :
             /\ Positions(transaction, {"Reallocate"}) = {r}
             /\ transaction[r].account = "ata"
             /\ Range(transaction[r].extensionTypes)
                  = RequestedAccountExtensions(extensions)
             /\ Len(transaction[r].extensionTypes)
                  = Cardinality(RequestedAccountExtensions(extensions))
             /\ \A t \in Positions(transaction, {"MintTo"}) : t < r
             /\ \A e \in Positions(transaction, EnableOps) : r < e
             /\ Positions(transaction, {"EnableRequiredMemoTransfers"}) # {}
                  <=> extensions.memoTransfer
             /\ Positions(transaction, {"EnableCpiGuard"}) # {}
                  <=> extensions.cpiGuard
      ELSE Positions(transaction, {"Reallocate"} \cup EnableOps) = {}

C9_Witness ==
  /\ Tx1Built
  /\ extensions.memoTransfer
  /\ extensions.cpiGuard
  /\ Cardinality(Positions(transaction, EnableOps)) = 2
  /\ Positions(transaction, {"Reallocate"}) # {}

(* The transfer hook survived conflict resolution: it is declared for the *)
(* mint and initialized in the plan.                                      *)
HookSurvived ==
  /\ "TransferHook" \in Range(extensionTypes)
  /\ Positions(transaction, {"InitializeTransferHook"}) # {}

(* C10: when the transfer hook survives conflict resolution the plan has   *)
(* exactly one registry-initialization instruction and it is the last      *)
(* instruction; when the hook does not survive, the plan has none.         *)
C10_RegistryLast ==
  Tx1Built =>
    IF HookSurvived
      THEN Positions(transaction, {"InitializeRegistry"}) = {Len(transaction)}
      ELSE Positions(transaction, {"InitializeRegistry"}) = {}

C10_Witness ==
  /\ Tx1Built
  /\ HookSurvived
  /\ extensions.memoTransfer
  /\ Positions(transaction, {"Reallocate"}) # {}
  /\ transaction[Len(transaction)].op = "InitializeRegistry"

(* ------------------------------------------------------------------ *)
(* Properties of resolveTransferHookAccounts                           *)
(* ------------------------------------------------------------------ *)
Resolving == operation = "resolveTransferHookAccounts"
ResolverDone == Resolving /\ pc = "done"

(* C11: resolveTransferHookAccounts never raises: whichever step fails     *)
(* (mint fetch, instruction construction, probe) it returns the empty set, *)
(* never the accounts a failed probe had appended so far.                  *)
C11_ResolverNeverRaises ==
  Resolving =>
    /\ pc # "failed"
    /\ (pc = "done" /\ failedStep # "none") => result = <<>>

C11_Witness ==
  /\ ResolverDone
  /\ failedStep = "addExtraAccountMetasForExecute"
  /\ Len(mockIxKeys) = 5
  /\ Len(probeExtras) = 2
  /\ result = <<>>

(* C12: over a mint without the transfer-hook extension the resolver       *)
(* returns the empty set for every transfer context, and neither builds    *)
(* the mock instruction nor starts the probe.                              *)
C12_NoHookNoProbe ==
  (Resolving /\ mintOnLedger = "noHook") =>
    /\ probes = 0
    /\ mockIxKeys = <<>>
    /\ pc = "done" => result = <<>>

C12_Witness ==
  /\ ResolverDone
  /\ mintOnLedger = "noHook"
  /\ failedStep = "none"
  /\ transferContext.amount = 1
  /\ transferContext.destination = "otherAta"

(* C13: for a mint with a transfer hook and a probe that succeeds, the     *)
(* resolver returns exactly the accounts the probe appended after source,  *)
(* mint, destination, authority: same order, same flags, none dropped and  *)
(* none of the four canonical accounts.                                    *)
C13_ExactlyTheAppendedAccounts ==
  (ResolverDone /\ failedStep = "none" /\ getTransferHook(mintOnLedger) # <<>>) =>
    /\ result = probeExtras
    /\ mockIxKeys = TransferCheckedKeys(transferContext) \o result
    /\ Len(mockIxKeys) = 4 + Len(result)

C13_Witness ==
  /\ ResolverDone
  /\ failedStep = "none"
  /\ mintOnLedger = "hookProgram"
  /\ result = <<AccountMeta("extraB", TRUE, FALSE), AccountMeta("extraA", FALSE, TRUE)>>

(* C19 as stated: over a mint whose transfer-hook extension names the null *)
(* program address the resolver returns the empty set from the mint data   *)
(* alone: it neither builds the transfer instruction nor starts the probe. *)
C19_NullProgramDecidedFromMintData ==
  (Resolving /\ mintOnLedger = "nullProgram") =>
    /\ mockIxKeys = <<>>
    /\ probes = 0
    /\ pc = "done" => result = <<>>

(* ------------------------------------------------------------------ *)
(* Properties of submission: simulation, atomicity, validity anchor    *)
(* ------------------------------------------------------------------ *)
ViaSendInstructions ==
  {"harvestTransferFees", "delegateBurn", "delegateTransfer", "updateInterestRate"}
Submitting == {"createToken"} \cup ViaSendInstructions
Submissions == {sent[i] : i \in 1..Len(sent)}
Polls == {polled[i] : i \in 1..Len(polled)}

C15_FailureLeavesNothingOnChain ==
  pc = "failed" => landed = {}

(* C20 as stated: every send has the preflight disabled, and every        *)
(* confirmation polls with the blockhash and last valid block height      *)
(* compiled into the transaction it confirms.                             *)
C20_PreflightOffAndCompiledAnchor ==
  /\ \A s \in Submissions : s.skipPreflight
  /\ \A p \in Polls :
       \E s \in Submissions :
         /\ s.tx = p.tx
         /\ p.blockhash = s.recentBlockhash
         /\ p.lastValidBlockHeight = LatestBlockhash(s.recentBlockhash).lastValidBlockHeight

(* ------------------------------------------------------------------ *)
(* Properties of the read-only queries and of the time helpers         *)
(* ------------------------------------------------------------------ *)
ConfigQueries == {"fetchHookConfig", "fetchICOConfig"}
Queries == ConfigQueries \cup {"detectExtensions"}
RecordMissing ==
  \/ operation \in ConfigQueries /\ configOnLedger = "notInitialized"
  \/ operation = "detectExtensions" /\ mintOnLedger = "notFound"

C17_TimeRoundTrip ==
  (operation = "istTimeToUtcMinute" /\ pc = "done") =>
    /\ result[1] \in 0..(MinutesPerDay - 1)
    /\ utcMinuteToIstTime(result[1]) = timeArg.string

C17_Witness ==
  /\ operation = "istTimeToUtcMinute"
  /\ pc = "done"
  /\ timeArg.string = <<"0", "3", ":", "0", "7">>
  /\ result[1] > MinutesPerDay - IST_OFFSET
  /\ utcMinuteToIstTime(result[1]) = <<"0", "3", ":", "0", "7">>

(* ------------------------------------------------------------------ *)
(* Properties of buyToken                                              *)
(* ------------------------------------------------------------------ *)
PurchaseBuilt ==
  /\ operation = "buyToken"
  /\ instructions # <<>>
  /\ instructions[Len(instructions)].op = "purchaseToken"
PurchaseIxKeys == instructions[Len(instructions)].keys
Pubkeys(keys) == [i \in 1..Len(keys) |-> keys[i].pubkey]

(* C18: the purchase instruction of buyToken lists the 11 fixed accounts   *)
(* buyer, mint, global config, sale creator, sale config, vault, vault     *)
(* token account, buyer token account, token program, associated-token     *)
(* program, system program, then the extra accounts the resolver returned  *)
(* in the resolver's order: 11 plus the number of extras in all.           *)
C18_PurchaseAccountList ==
  PurchaseBuilt =>
    /\ Len(PurchaseIxKeys) = 11 + Len(extraAccounts)
    /\ Pubkeys(SubSeq(PurchaseIxKeys, 1, 11)) =
         <<"payer", "mint", "config", ICOConfigState.creator, "icoConfigAccount",
           "icoVaultAccount", "vaultAta", "buyerAta", tokenProgram,
           "ASSOCIATED_TOKEN_PROGRAM_ID", "SystemProgram.programId">>
    /\ SubSeq(PurchaseIxKeys, 12, Len(PurchaseIxKeys)) = extraAccounts
    /\ (tokenProgram = "TOKEN_2022_PROGRAM_ID" /\ failedStep = "none"
          /\ getTransferHook(mintOnLedger) # <<>>) => extraAccounts = probeExtras
    /\ tokenProgram # "TOKEN_2022_PROGRAM_ID" => extraAccounts = <<>>

C18_Witness ==
  /\ PurchaseBuilt
  /\ pc = "done"
  /\ mintOnLedger = "hookProgram"
  /\ extraAccounts = <<AccountMeta("extraA", FALSE, FALSE), AccountMeta("extraB", TRUE, FALSE)>>
  /\ Len(PurchaseIxKeys) = 13
  /\ Len(instructions) = 2

(* ------------------------------------------------------------------ *)
(* Properties of createToken: sizing and the hook                      *)
(* ------------------------------------------------------------------ *)
InitializedExtensions(tx) == {ExtensionOfInit(ix.op) : ix \in Range(InitsOf(tx))}
SizedExtensions(tx) == Range(tx[1].mintLenOf)

(* C26: in every Tx1 plan the extensions the mint account is sized for     *)
(* (the list handed to getMintLen, which gives CreateAccount its space)    *)
(* are exactly the extensions an initialization instruction is emitted     *)
(* for, each once, for every extension request.                            *)
C26_SizedExactlyInitialized ==
  Tx1Built =>
    /\ transaction[1].op = "CreateAccount"
    /\ transaction[1].mintLenOf = extensionTypes
    /\ SizedExtensions(transaction) = InitializedExtensions(transaction)
    /\ Cardinality(SizedExtensions(transaction)) = Len(extensionTypes)
    /\ Len(InitsOf(transaction)) = Len(extensionTypes)

C26_Witness ==
  /\ Tx1Built
  /\ extensions.permanentDelegation
  /\ Present(extensions.transferFee)
  /\ Present(extensions.interestBearing)
  /\ SizedExtensions(transaction) =
       {"TransferHook", "PermanentDelegate", "TransferFeeConfig", "InterestBearingConfig"}
  /\ Len(InitsOf(transaction)) = 4

(* C28: a Tx1 plan holds the hook initialization and the registry          *)
(* instruction exactly when neither nonTransferable nor cpiGuard is        *)
(* requested, both or neither; the request has no field that names the     *)
(* hook, so nothing else in the request decides it.                        *)
C28_HookIffNeitherFlag ==
  Tx1Built =>
    LET hookInits == Positions(transaction, {"InitializeTransferHook"})
        registries == Positions(transaction, {"InitializeRegistry"})
        gated == ~extensions.nonTransferable /\ ~extensions.cpiGuard
    IN /\ gated => Cardinality(hookInits) = 1 /\ Cardinality(registries) = 1
       /\ ~gated => hookInits = {} /\ registries = {}
       /\ \A i \in hookInits : transaction[i].programId = "TRANSFER_HOOK_PROGRAM_ID"
       /\ DOMAIN extensions =
            {"permanentDelegation", "transferFee", "interestBearing", "memoTransfer",
             "nonTransferable", "cpiGuard"}

C28_Witness ==
  /\ Tx1Built
  /\ extensions = NoExtensions
  /\ Positions(transaction, {"InitializeTransferHook"}) # {}
  /\ transaction[Len(transaction)].op = "InitializeRegistry"

(* ------------------------------------------------------------------ *)
(* Properties of the registry addresses                                *)
(* ------------------------------------------------------------------ *)
RegistryIxs(tx) == {tx[i] : i \in Positions(tx, {"InitializeRegistry"})}

(* C30: the policy-config and extra-account-metas addresses a Tx1 plan     *)
(* registers for its mint are the addresses deriveHookConfigPDA and        *)
(* deriveExtraAccountMetaListPDA return for that mint, and the address     *)
(* fetchHookConfig fetches is the registered one exactly when it is asked  *)
(* about that mint.                                                        *)
C30_RegisteredAddressesAreDerived ==
  /\ Tx1Built =>
       \A ix \in RegistryIxs(transaction) :
         /\ ix.config = deriveHookConfigPDA(ix.mint)
         /\ ix.extraAccountMetaList = deriveExtraAccountMetaListPDA(ix.mint)
         /\ ix.config # ix.extraAccountMetaList
  /\ operation = "fetchHookConfig" =>
       \E mintAddress \in Mints :
         /\ configPda = deriveHookConfigPDA(mintAddress)
         /\ (configPda = InitRegistryIx(NoHookConfig, DefaultMetadata).config)
              <=> (mintAddress = InitRegistryIx(NoHookConfig, DefaultMetadata).mint)

C30_Witness ==
  /\ Tx1Built
  /\ RegistryIxs(transaction) # {}
  /\ \A ix \in RegistryIxs(transaction) :
       /\ ix.config = [seeds |-> <<"config", "mint">>, programId |-> "TRANSFER_HOOK_PROGRAM_ID"]
       /\ ix.extraAccountMetaList =
            [seeds |-> <<"extra-account-metas", "mint">>,
             programId |-> "TRANSFER_HOOK_PROGRAM_ID"]

(* ------------------------------------------------------------------ *)
(* Properties of harvestTransferFees                                   *)
(* ------------------------------------------------------------------ *)
Harvesting == operation = "harvestTransferFees" /\ pc = "hv_getAccountInfo"
HarvestPlanned ==
  /\ operation = "harvestTransferFees"
  /\ pc \in {"si_build", "si_sign", "si_blockhash", "si_send", "si_confirm", "done"}
HarvestIxs(ixs) == {i \in 1..Len(ixs) : ixs[i].op = "HarvestWithheldTokensToMint"}
Withheld(accounts) == {accounts[i].pubkey : i \in {j \in 1..Len(accounts) : accounts[j].kind = "withheld"}}
CeilDiv(n, d) == (n + d - 1) \div d

(* C29: the harvest instructions partition the accounts with withheld > 0  *)
(* into consecutive batches of at most 20: ceil(n / 20) instructions, the  *)
(* batches in the order of the accounts read, every such account in        *)
(* exactly one batch and no other account in any; with n = 0 there is no   *)
(* harvest instruction, and the plan sent still ends with the withdraw.    *)
C29_HarvestBatchesPartition ==
  /\ Harvesting \/ HarvestPlanned =>
       LET hs == HarvestIxs(instructions)
           n == Cardinality(Withheld(programAccounts))
       IN /\ Cardinality(hs) = CeilDiv(n, BatchSize)
          /\ hs = 1..Cardinality(hs)
          /\ \A i \in hs : Len(instructions[i].sources) \in 1..BatchSize
          /\ \A i \in hs : i < Cardinality(hs) => Len(instructions[i].sources) = BatchSize
          /\ \A a \in Withheld(programAccounts) :
               Cardinality({<<i, k>> \in hs \X (1..BatchSize) :
                              /\ k <= Len(instructions[i].sources)
                              /\ instructions[i].sources[k] = a}) = 1
          /\ \A i \in hs : Range(instructions[i].sources) \subseteq Withheld(programAccounts)
          /\ \A i \in hs : \A k \in 1..(Len(instructions[i].sources) - 1) :
               instructions[i].sources[k] < instructions[i].sources[k + 1]
          /\ \A i \in hs : i + 1 \in hs =>
               instructions[i].sources[BatchSize] < instructions[i + 1].sources[1]
  /\ HarvestPlanned =>
       /\ instructions[Len(instructions)] = WithdrawWithheldIx
       /\ Cardinality({i \in 1..Len(instructions) :
                         instructions[i].op = "WithdrawWithheldTokensFromMint"}) = 1

C29_Witness ==
  /\ HarvestPlanned
  /\ Cardinality(Withheld(programAccounts)) = 2 * BatchSize + 1
  /\ Cardinality(HarvestIxs(instructions)) = 3
  /\ Len(instructions[3].sources) = 1

C29_WitnessSkipping ==
  /\ HarvestPlanned
  /\ Cardinality(Withheld(programAccounts)) \in (BatchSize + 1)..(Len(programAccounts) - 1)
  /\ Cardinality(HarvestIxs(instructions)) = 2

C29_WitnessNone ==
  /\ HarvestPlanned
  /\ Len(programAccounts) > 0
  /\ Withheld(programAccounts) = {}
  /\ HarvestIxs(instructions) = {}
  /\ instructions[Len(instructions)] = WithdrawWithheldIx

(* ------------------------------------------------------------------ *)
(* Properties of the minute-to-string conversions                      *)
(* ------------------------------------------------------------------ *)
MinuteConverted ==
  /\ operation \in {"utcMinuteToIstTime", "utcMinuteToUtcTime"}
  /\ pc = "done"
Mod1440(m) == m - MinutesPerDay * FloorDiv(m, MinutesPerDay)
ConversionOf(m) ==
  IF operation = "utcMinuteToIstTime" THEN utcMinuteToIstTime(m) ELSE utcMinuteToUtcTime(m)

(* C23, as stated: for every integer m, also outside 0..1439 and negative, *)
(* utcMinuteToIstTime(m) and utcMinuteToUtcTime(m) are wall-clock strings  *)
(* (hour 00..23, minute 00..59) equal to the result for m mod 1440.        *)
C23_Original_NormalisedModulo1440 ==
  MinuteConverted =>
    /\ result[1] \in WallClockStrings
    /\ result[1] = ConversionOf(Mod1440(timeArg.minute))

(* C23, amended: both conversions give the wall-clock string of the minute *)
(* for m in 0..1439. utcMinuteToUtcTime does not reduce m: its result is a *)
(* wall-clock string exactly for m in 0..1439. utcMinuteToIstTime adds 330 *)
(* and subtracts 1440 once: its result is a wall-clock string, equal to    *)
(* the one for m mod 1440, exactly for m in -330..2549.                    *)
C23_NormalisedInsideOneWrap ==
  /\ (operation = "utcMinuteToUtcTime" /\ pc = "done") =>
       LET m == timeArg.minute
       IN /\ result[1] \in WallClockStrings <=> m \in 0..(MinutesPerDay - 1)
          /\ m \in 0..(MinutesPerDay - 1) =>
               result[1] = WallClock(m \div MinutesPerHour, m % MinutesPerHour)
  /\ (operation = "utcMinuteToIstTime" /\ pc = "done") =>
       LET m == timeArg.minute
           inside == m \in (0 - IST_OFFSET)..(2 * MinutesPerDay - IST_OFFSET - 1)
           local == Mod1440(m + IST_OFFSET)
       IN /\ result[1] \in WallClockStrings <=> inside
          /\ inside => result[1] = WallClock(local \div MinutesPerHour, local % MinutesPerHour)
          /\ inside => result[1] = utcMinuteToIstTime(Mod1440(m))

C23_Witness ==
  /\ operation = "utcMinuteToUtcTime"
  /\ pc = "done"
  /\ timeArg.minute = MinutesPerDay
  /\ result[1] = <<"2", "4", ":", "0", "0">>

C23_WitnessNegative ==
  /\ operation = "utcMinuteToIstTime"
  /\ pc = "done"
  /\ timeArg.minute = 0 - IST_OFFSET - 1
  /\ result[1] = <<"-", "1", ":", "-", "1">>

(* ------------------------------------------------------------------ *)
(* Properties of the associated-token-account checks                   *)
(* ------------------------------------------------------------------ *)
AtaOperations == {"harvestTransferFees", "delegateTransfer", "launchICO", "buyToken"}

(* The account an operation checks for, its owner, and the instruction  *)
(* that needs it.                                                        *)
RequiredAta ==
  CASE operation = "harvestTransferFees" ->
         [ata |-> "ownerAta", owner |-> "payer", neededBy |-> "WithdrawWithheldTokensFromMint"]
    [] operation = "delegateTransfer" ->
         [ata |-> "destAta", owner |-> "destWallet", neededBy |-> "TransferChecked"]
    [] operation = "launchICO" ->
         [ata |-> "creatorAta", owner |-> "payer", neededBy |-> "initializeIco"]
    [] operation = "buyToken" ->
         [ata |-> "buyerAta", owner |-> "payer", neededBy |-> "purchaseToken"]
AtaChecked == operation \in AtaOperations /\ ataCheck # "none"
Creations == Positions(instructions, {"CreateAssociatedTokenAccount"})
Needing == Positions(instructions, {RequiredAta.neededBy})

(* C21: when the required associated token account is absent at the time   *)
(* of the check and the check returns, the plan holds one creation          *)
(* instruction for that account and owner, and it stands before the         *)
(* instruction that needs the account (transfer, withdraw, initializeIco,   *)
(* purchaseToken).                                                          *)
C21_AbsentAtaCreatedBeforeUse ==
  (AtaChecked /\ ataOnLedger = "absent" /\ ataCheck # "rejects") =>
    /\ Cardinality(Creations) = 1
    /\ \A i \in Creations :
         /\ instructions[i] = CreateAssociatedTokenAccountIx(RequiredAta.ata, RequiredAta.owner)
         /\ \A j \in Needing : i < j
    /\ pc \in {"done", "si_build", "si_sign", "si_blockhash", "si_send", "si_confirm"}
         => Cardinality(Needing) = 1

C21_Witness ==
  /\ operation = "launchICO"
  /\ pc = "done"
  /\ ataOnLedger = "absent"
  /\ Len(instructions) = 2
  /\ instructions[1] = CreateAssociatedTokenAccountIx("creatorAta", "payer")
  /\ instructions[2].op = "initializeIco"

C21_WitnessTransfer ==
  /\ operation = "delegateTransfer"
  /\ pc = "done"
  /\ ataOnLedger = "absent"
  /\ instructions[1] = CreateAssociatedTokenAccountIx("destAta", "destWallet")
  /\ instructions[2].op = "TransferChecked"

(* C27: when the required associated token account exists on the ledger at *)
(* the time of the check, the plan holds no creation instruction for it,    *)
(* whatever the existence check's RPC call did.                             *)
C27_ExistingAtaNeverCreated ==
  (AtaChecked /\ ataOnLedger = "exists") => Creations = {}

(* ------------------------------------------------------------------ *)
(* Properties of failure handling                                      *)
(* ------------------------------------------------------------------ *)
ValueMoving == {"launchICO", "buyToken", "delegateTransfer"}
Ended == pc \in {"done", "failed"}
TransferIxs ==
  {i \in 1..Len(instructions) :
     instructions[i].op \in {"initializeIco", "purchaseToken", "TransferChecked"}}
ExtrasOfIx(ix) ==
  CASE ix.op = "initializeIco" -> ix.remainingAccounts
    [] ix.op = "purchaseToken" ->
         SubSeq(ix.keys, Len(PurchaseTokenIdlAccounts) + 1, Len(ix.keys))
    [] ix.op = "TransferChecked" -> ExtraAccountsOf(ix.keys)

(* C24: in launchICO, buyToken and delegateTransfer a failed extra-account  *)
(* resolution (mint lookup or probe) is recovered as no extra accounts and  *)
(* not surfaced: the call ends with its transfer instruction built with     *)
(* the canonical accounts only.                                             *)
C24_ResolutionFailureRecovered ==
  (operation \in ValueMoving /\ failedStep # "none" /\ Ended) =>
    /\ Cardinality(TransferIxs) = 1
    /\ \A i \in TransferIxs : ExtrasOfIx(instructions[i]) = <<>>

(* The awaited calls that stand inside a try whose catch returns a value *)
Caught ==
  {"resolveTransferHookAccounts.getMint",
   "resolveTransferHookAccounts.addExtraAccountMetasForExecute",
   "getAccount", "fetchHookConfig.fetch", "fetchICOConfig.fetch"}

C22_WitnessSurfaced ==
  /\ operation = "harvestTransferFees"
  /\ pc = "failed"
  /\ rejected = {"getAccountInfo"}
  /\ ataOnLedger = "exists"

(* ------------------------------------------------------------------ *)
(* Properties of concurrent invocations                                *)
(* ------------------------------------------------------------------ *)
HasResolved(c) == c.pc \in {"getAccount", "rpc", "done", "failed"}
HasPlanned(c) == c.pc \in {"done", "failed"}

(* C25: for every interleaving of two concurrent launchICO / buyToken      *)
(* invocations on one mint, with the policy changing in between, the       *)
(* extra-account set of each invocation is the one the ledger held at the  *)
(* read made inside that invocation (empty when that read failed), its     *)
(* plan is made of its own arguments, its own account check and its own    *)
(* extra accounts, and a returned invocation keeps nothing for the next.   *)
C25_NoSharedState ==
  \A i \in Invocations :
    LET c == calls[i]
    IN /\ HasResolved(c) =>
            c.extraAccounts = IF c.resolved THEN c.policyAtRead ELSE <<>>
       /\ HasPlanned(c) =>
            c.plan = PreInstructions(c.ataCheck, payerAta, OwnAta(c), "payer")
                       \o <<MainIx(c)>>
       /\ c.pc = "idle" => c = IdleCall

C25_Witness ==
  /\ calls[1].pc = "rpc"
  /\ calls[2].pc = "rpc"
  /\ calls[1].resolved /\ calls[2].resolved
  /\ calls[1].op = calls[2].op
  /\ calls[1].amount = calls[2].amount
  /\ calls[1].extraAccounts = <<>>
  /\ Len(calls[2].extraAccounts) = 2
  /\ hookPolicy = calls[2].extraAccounts
====
